---- MODULE Spec2Model ----
(***************************************************************************)
(* Migration management of the backend: manage.py, scripts/migrate.py and  *)
(* scripts/check_migrations.py driving the alembic revision chain and the  *)
(* alembic_version marker of the target database.                          *)
(*                                                                         *)
(* A revision is identified by a number of RevIds; None stands for Python's *)
(* None ("no revision", alembic's base).  The revision scripts are the     *)
(* function down: revision id -> its down_revision.  The database is the   *)
(* marker table (tableExists, version_num) and the set of revisions whose  *)
(* DDL is in place (schema).  One command runs at a time (single writer).  *)
(***************************************************************************)
EXTENDS Integers, Sequences, FiniteSets, TLC

MaxRevs == 3

None == 0
Overwalk == -1
RevIds == 1..MaxRevs

VARIABLES
    down,                 \* the revision scripts: id |-> down_revision
    tableExists,          \* the alembic_version table exists
    version_num,          \* the row of alembic_version (None: no row)
    schema,               \* revisions whose upgrade() effects are in the database
    pc,                   \* "idle", "manage_loop" (for loop of manage.migrate), "alembic" (inside command.upgrade/downgrade)
    cmd,                  \* the command started last
    target,               \* its revision argument (None: not given)
    steps,                \* its numeric argument: steps of rollback, limit of history (else 0)
    current_rev,          \* local current_rev of the command
    head_rev,             \* local head_rev of the command
    migrations_to_apply,  \* local plan of manage.migrate
    idx,                  \* position of the for loop in migrations_to_apply
    todo,                 \* migration steps left in the running alembic call
    ret,                  \* where the running alembic call returns to
    tx,                   \* database state at the start of the running alembic call
    exitCode,             \* exit code of the command (-1: still running)
    out,                  \* what the command printed (a list)
    log,                  \* apply/revert steps the command has executed so far
    trip,                 \* history: progress of a migrate-to-head / roll-back round trip
    calls,                \* history: the revisions manage.migrate has handed to command.upgrade
    broken,               \* the revision script whose upgrade() raises (None: no script is known to)
    retry,                \* history: the failed migrate run that the running migrate follows
    since,                \* history: what has happened since the initial state
    users,                \* the rows of table users: id |-> row
    next_id,              \* the next value of the sequence behind users.id
    registering,          \* per database session: the create_user call between its query and its commit
    tokens,               \* the tokens issued so far (their payloads)
    resp,                 \* the response to the request served last
    deactivated           \* history: the stored users whose is_active a request has set to false

vars == <<down, tableExists, version_num, schema, pc, cmd, target, steps,
          current_rev, head_rev, migrations_to_apply, idx, todo, ret, tx,
          exitCode, out, log, trip, calls, broken, retry, since,
          users, next_id, registering, tokens, resp, deactivated>>

\* the state of the authentication service
authvars == <<users, next_id, registering, tokens, resp, deactivated>>

dbvars == <<tableExists, version_num, schema>>
locals == <<current_rev, head_rev, migrations_to_apply, idx>>
callvars == <<todo, ret, tx>>

(***************************************************************************)
(* Sequences                                                               *)
(***************************************************************************)
Range(s) == {s[i] : i \in 1..Len(s)}

Reverse(s) == [i \in 1..Len(s) |-> s[Len(s) + 1 - i]]

IsInjective(s) == \A i, j \in 1..Len(s) : s[i] = s[j] => i = j

(***************************************************************************)
(* The revision scripts (alembic ScriptDirectory)                          *)
(***************************************************************************)
Revisions == DOMAIN down

\* rev.down_revision, None for the root (and for None itself)
down_revision(r) == IF r \in Revisions THEN down[r] ELSE None

\* the linear chains R1 -> ... -> Rn over RevIds, oldest first
ChainSeqs == UNION {{s \in [1..k -> RevIds] : IsInjective(s)} : k \in 0..MaxRevs}

DownOf(s) == [r \in Range(s) |->
                 LET i == CHOOSE j \in 1..Len(s) : s[j] = r
                 IN  IF i = 1 THEN None ELSE s[i - 1]]

\* revisions no other revision names as its down_revision
Heads == {r \in Revisions : \A s \in Revisions : down[s] # r}

\* script.get_current_head(): None when there is no revision
get_current_head == IF Heads = {} THEN None ELSE CHOOSE r \in Heads : TRUE

\* script.get_current_head() raises CommandError ("The script directory has
\* multiple heads") when more than one revision is a head
MultipleHeadsTolerated == FALSE

MultipleHeads == Cardinality(Heads) > 1

\* the local head_rev after head_rev = script.get_current_head(): not
\* assigned (None) when the call raises
HeadRevAssigned == IF MultipleHeads THEN None ELSE get_current_head

\* script.get_revision(id)
get_revision(id) == IF id \in Revisions THEN id ELSE None

RECURSIVE WalkDown(_)
WalkDown(r) == IF r = None THEN <<>> ELSE <<r>> \o WalkDown(down_revision(r))

\* list(script.walk_revisions()): newest first, from head to base
walk_revisions == WalkDown(get_current_head)

(***************************************************************************)
(* The marker table                                                        *)
(***************************************************************************)
\* MigrationContext.get_current_revision(): None without table or row
get_current_revision == IF tableExists THEN version_num ELSE None

\* conn.execute("SELECT version_num FROM alembic_version").scalar()
SelectVersionNum == [raised |-> ~tableExists, value |-> version_num]

(***************************************************************************)
(* alembic: which migrations a command.upgrade / command.downgrade runs     *)
(***************************************************************************)
\* r and the revisions below it
Ancestors(r) == Range(WalkDown(r))

\* alembic resolves the revision of the marker among the revision scripts;
\* "Can't locate revision identified by ..." when no script carries it
AlembicCanLocateAny(cur) == TRUE

AlembicCanLocate(cur) == cur = None \/ cur \in Revisions

\* command.upgrade(cfg, to) with the database at cur: the revisions after cur
\* up to and including to, oldest first; nothing when to is not ahead of cur
UpgradeRevs(cur, to) ==
    IF cur # None /\ cur \notin Ancestors(to)
    THEN <<>>
    ELSE Reverse(SelectSeq(WalkDown(to), LAMBDA r : r \notin Ancestors(cur)))

\* the relative target "-n" of command.downgrade: n steps down from initial,
\* base (None) below the root, and no step below base
RECURSIVE RelativeWalkClamped(_, _)
RelativeWalkClamped(initial, n) ==
    IF n = 0 \/ initial = None THEN initial
    ELSE RelativeWalkClamped(down_revision(initial), n - 1)

RECURSIVE RelativeWalk(_, _)
RelativeWalk(initial, n) ==
    IF n = 0 THEN initial
    ELSE IF initial = None THEN Overwalk
    ELSE RelativeWalk(down_revision(initial), n - 1)

\* command.downgrade to tgt with the database at cur: newest first
DowngradeRevs(cur, tgt) ==
    SelectSeq(WalkDown(cur), LAMBDA r : r \notin Ancestors(tgt))

UpgradeSteps(cur, to) ==
    LET revs == UpgradeRevs(cur, to)
    IN  [i \in 1..Len(revs) |-> [op |-> "apply", rev |-> revs[i]]]

DowngradeSteps(cur, tgt) ==
    LET revs == DowngradeRevs(cur, tgt)
    IN  [i \in 1..Len(revs) |-> [op |-> "revert", rev |-> revs[i]]]

(***************************************************************************)
(* Planning in manage.migrate                                              *)
(***************************************************************************)
\* the while loop: from rev back over down_revision until current (or the root)
RECURSIVE PlanLoop(_, _)
PlanLoop(rev, current) ==
    IF rev = None \/ rev = current THEN <<>>
    ELSE <<rev>> \o (IF down_revision(rev) # None
                     THEN PlanLoop(get_revision(down_revision(rev)), current)
                     ELSE <<>>)

PlanUpgradeNotReversed(current, head) == PlanLoop(get_revision(head), current)

PlanUpgradeFromBase(current, head) == Reverse(PlanLoop(get_revision(head), None))

\* migrations_to_apply after migrations_to_apply.reverse()
PlanUpgrade(current, head) == Reverse(PlanLoop(get_revision(head), current))

(***************************************************************************)
(* History of a round trip: migrate from nothing to head, then roll back   *)
(***************************************************************************)
NoTrip == [n |-> -1, via |-> "none"]

\* a migrate run that executed steps has ended with exit code code
TripAfterMigrate(startRev, code) ==
    IF code = 0 /\ startRev = None /\ get_current_head # None
       /\ version_num = get_current_head
    THEN [n |-> 0, via |-> "none"]
    ELSE NoTrip

\* a roll back of k revisions asked through entry point by has ended
TripAfterRollback(k, by, code) ==
    IF code = 0 /\ trip.n >= 0 /\ trip.n + k <= MaxRevs
    THEN [n |-> trip.n + k,
          via |-> IF trip.via \in {"none", by} THEN by ELSE "mixed"]
    ELSE NoTrip

TripAfter(code) ==
    IF cmd \in {"manage.migrate", "scripts.migrate"}
    THEN TripAfterMigrate(current_rev, code)
    ELSE IF cmd = "manage.downgrade" THEN TripAfterRollback(1, "downgrade", code)
    ELSE TripAfterRollback(steps, "rollback", code)

(***************************************************************************)
(* Initial state: any linear chain of revision scripts, a fresh database   *)
(***************************************************************************)
\* history of a retry: the revision the run before failed at and the
\* revisions that run had applied, when the command that ended last is a
\* manage.py migrate without target that failed
NoRetry == [failedAt |-> None, applied |-> {}]

RetryAfter ==
    IF cmd = "manage.migrate" /\ target = None /\ pc = "idle"
       /\ \E i \in 1..Len(log) : ~log[i].ok
    THEN [failedAt |-> log[Len(log)].rev,
          applied |-> {log[i].rev : i \in {j \in 1..Len(log) : log[j].ok}}]
    ELSE NoRetry

NoTx == [tableExists |-> FALSE, version_num |-> None, schema |-> {}]

\* nothing has happened yet: no migration was reverted, no revision was
\* written without a look at the database
NoSince == [reverted |-> FALSE, blind |-> FALSE]

\* no request was served yet
NoResponse ==
    [op |-> "none", status |-> 0, caller |-> 0, subject |-> 0, token |-> "none"]

\* the database sessions that serve requests side by side
Sessions == 1..2

\* the session is not inside create_user
NoRequest == [email |-> "", username |-> ""]

\* a fresh database: no marker table, nothing migrated
InitDatabase ==
    /\ tableExists = FALSE
    /\ version_num = None
    /\ schema = {}

\* no command run yet, no request served
InitIdle ==
    /\ since = NoSince
    /\ users = <<>>
    /\ next_id = 1
    /\ registering = [s \in Sessions |-> NoRequest]
    /\ tokens = {}
    /\ resp = NoResponse
    /\ deactivated = {}
    /\ pc = "idle"
    /\ cmd = "none"
    /\ target = None
    /\ steps = 0
    /\ current_rev = None
    /\ head_rev = None
    /\ migrations_to_apply = <<>>
    /\ idx = 0
    /\ todo = <<>>
    /\ ret = "finish"
    /\ tx = NoTx
    /\ exitCode = 0
    /\ out = <<>>
    /\ log = <<>>
    /\ trip = NoTrip
    /\ calls = <<>>
    /\ retry = NoRetry

InitRest == InitDatabase /\ InitIdle

InitBase ==
    /\ \E s \in ChainSeqs : down = DownOf(s)
    /\ InitRest

\* every revision script runs through, unless the step itself fails
Init == InitBase /\ broken = None

\* a command starts: argument parsing of main()
StartCmd(c, t, n) ==
    /\ pc = "idle"
    /\ cmd' = c
    /\ target' = t
    /\ steps' = n
    /\ log' = <<>>
    /\ calls' = <<>>
    /\ retry' = IF c = "manage.migrate" /\ t = None THEN RetryAfter ELSE NoRetry
    /\ UNCHANGED <<down, broken, since, authvars>>

\* the command returns to main() without an exception: exit code 0
ExitOk == 0

ExitOnExceptionSwallowed == ExitOk

\* an exception reaches main() of manage.py, or the except of the
\* MigrationManager method: sys.exit(1)
ExitOnException == 1

(***************************************************************************)
(* alembic runs the migrations of one command.upgrade / command.downgrade  *)
(***************************************************************************)
\* env.py runs the migrations: the version table is created when missing
BeginAlembic(stepList, back) ==
    /\ pc' = "alembic"
    /\ todo' = stepList
    /\ ret' = back
    /\ tx' = [tableExists |-> tableExists, version_num |-> version_num, schema |-> schema]
    /\ tableExists' = TRUE
    /\ UNCHANGED <<version_num, schema>>

\* version_num after the step has run: the revision applied, or the
\* down_revision of the revision reverted (no row below the root)
VersionAfterNotWritten(step) == version_num

VersionAfterRevertToBase(step) ==
    IF step.op = "apply" THEN step.rev ELSE None

VersionAfter(step) ==
    IF step.op = "apply" THEN step.rev ELSE down_revision(step.rev)

SchemaAfter(step) ==
    IF step.op = "apply" THEN schema \cup {step.rev} ELSE schema \ {step.rev}

\* the next migration of the call runs and succeeds
AlembicStepOk ==
    /\ pc = "alembic"
    /\ todo # <<>>
    /\ version_num' = VersionAfter(Head(todo))
    /\ schema' = SchemaAfter(Head(todo))
    /\ log' = Append(log, [op |-> Head(todo).op, rev |-> Head(todo).rev, ok |-> TRUE])
    /\ todo' = Tail(todo)
    /\ since' = [since EXCEPT !.reverted = @ \/ Head(todo).op = "revert"]
    /\ UNCHANGED <<down, tableExists, pc, cmd, target, steps, locals, ret, tx,
                   exitCode, out, trip, calls, broken, retry,
                   authvars>>

\* the database after a call was left by an exception: the migration under
\* way is rolled back (transactional DDL), the migrations the call completed
\* before it are kept when each had its own transaction and rolled back
\* with it when the call runs in one transaction
AbortedCallKeepsPartialEffects(transaction_per_migration) ==
    /\ schema' = schema \cup {Head(todo).rev}
    /\ UNCHANGED <<tableExists, version_num>>

AbortedCall(transaction_per_migration) ==
    IF transaction_per_migration
    THEN UNCHANGED dbvars
    ELSE /\ tableExists' = tx.tableExists
         /\ version_num' = tx.version_num
         /\ schema' = tx.schema

\* the next migration of the call raises: its own DDL is rolled back
\* (transactional DDL); the earlier migrations of the same call are rolled
\* back too when env.py runs the call in one transaction and kept when it
\* runs one transaction per migration.  The exception ends the command.
AlembicStepFailsUnder(modes) ==
    /\ pc = "alembic"
    /\ todo # <<>>
    /\ log' = Append(log, [op |-> Head(todo).op, rev |-> Head(todo).rev, ok |-> FALSE])
    /\ \E transaction_per_migration \in modes : AbortedCall(transaction_per_migration)
    /\ pc' = "idle"
    /\ exitCode' = ExitOnException
    /\ trip' = NoTrip
    /\ todo' = <<>>
    /\ ret' = "finish"
    /\ tx' = NoTx
    /\ UNCHANGED <<down, cmd, target, steps, locals, out, calls, broken, retry,
                   since, authvars>>

\* env.py is not known: either transaction mode
AlembicStepFails == AlembicStepFailsUnder(BOOLEAN)

\* the call returns: to the for loop of manage.migrate, or to the end of the command
AlembicReturn ==
    /\ pc = "alembic"
    /\ todo = <<>>
    /\ IF ret = "manage_loop"
       THEN /\ pc' = "manage_loop"
            /\ UNCHANGED <<exitCode, trip>>
       ELSE /\ pc' = "idle"
            /\ exitCode' = ExitOk
            /\ trip' = TripAfter(ExitOk)
    /\ ret' = "finish"
    /\ tx' = NoTx
    /\ UNCHANGED <<down, dbvars, cmd, target, steps, locals, todo, out, log,
                   calls, broken, retry,
                   since, authvars>>

(***************************************************************************)
(* manage.py migrate [target]                                              *)
(***************************************************************************)
ManageMigrate ==
    \E t \in Revisions \cup {None} :
       /\ StartCmd("manage.migrate", t, 0)
       /\ current_rev' = get_current_revision
       /\ out' = <<>>
       /\ IF MultipleHeads
          THEN \* script.get_current_head() raises: the exception reaches main()
               /\ head_rev' = None
               /\ migrations_to_apply' = <<>>
               /\ idx' = 0
               /\ pc' = "idle"
               /\ exitCode' = ExitOnException
               /\ trip' = NoTrip
          ELSE IF get_current_revision = get_current_head
          THEN \* "No migrations to apply."
               /\ head_rev' = HeadRevAssigned
               /\ migrations_to_apply' = <<>>
               /\ idx' = 0
               /\ pc' = "idle"
               /\ exitCode' = ExitOk
               /\ UNCHANGED trip
          ELSE /\ head_rev' = get_current_head
               /\ migrations_to_apply' = PlanUpgrade(get_current_revision, get_current_head)
               /\ trip' = NoTrip
               /\ IF get_current_head = None
                  THEN \* head_rev[:8] raises TypeError: no revision script is left
                       /\ idx' = 0
                       /\ pc' = "idle"
                       /\ exitCode' = ExitOnException
                  ELSE /\ idx' = 1
                       /\ pc' = "manage_loop"
                       /\ exitCode' = -1
       /\ UNCHANGED <<dbvars, callvars>>

\* the revision the loop body hands to command.upgrade for rev
UpgradeArgHead(rev) == IF target # None THEN target ELSE head_rev

UpgradeArgIgnoresTarget(rev) == rev

\* the loop reads the marker again and goes for the revision after it
UpgradeArgRevalidated(rev) ==
    IF target # None THEN target
    ELSE LET again == PlanUpgrade(get_current_revision, head_rev)
         IN  IF again = <<>> THEN rev ELSE again[1]

UpgradeArg(rev) == IF target # None THEN target ELSE rev

\* for rev in migrations_to_apply: command.upgrade(alembic_cfg, ...); with a
\* target the first iteration upgrades to it and breaks
ManageLoopNext ==
    /\ pc = "manage_loop"
    /\ idx <= Len(migrations_to_apply)
    /\ calls' = Append(calls, UpgradeArg(migrations_to_apply[idx]))
    /\ IF AlembicCanLocate(get_current_revision)
       THEN /\ BeginAlembic(UpgradeSteps(get_current_revision,
                                         UpgradeArg(migrations_to_apply[idx])),
                            IF target # None THEN "finish" ELSE "manage_loop")
            /\ idx' = IF target # None THEN Len(migrations_to_apply) + 1 ELSE idx + 1
            /\ UNCHANGED <<exitCode, trip>>
       ELSE \* command.upgrade raises CommandError: "FAILED", raise
            /\ pc' = "idle"
            /\ exitCode' = ExitOnException
            /\ trip' = NoTrip
            /\ UNCHANGED <<dbvars, callvars, idx>>
    /\ UNCHANGED <<down, cmd, target, steps, current_rev, head_rev,
                   migrations_to_apply, out, log, broken, retry,
                   since, authvars>>

\* the for loop is over: "All migrations applied successfully!"
ManageLoopEnd ==
    /\ pc = "manage_loop"
    /\ idx > Len(migrations_to_apply)
    /\ pc' = "idle"
    /\ exitCode' = ExitOk
    /\ trip' = TripAfter(ExitOk)
    /\ UNCHANGED <<down, dbvars, cmd, target, steps, locals, callvars, out, log,
                   calls, broken, retry,
                   since, authvars>>

\* Ctrl-C while manage.py migrate runs: KeyboardInterrupt passes the
\* except Exception of the loop and reaches main(), which prints
\* "Shutting down..." and calls sys.exit(0)
ExitOnInterrupt == 0

\* the interrupt arrives between two iterations of the for loop, or inside
\* command.upgrade / command.downgrade before the next migration runs: the
\* open transaction of the call is rolled back
KeyboardInterruptUnder(modes) ==
    /\ cmd \in {"manage.migrate", "manage.downgrade"}
    /\ \/ /\ pc = "manage_loop"
          /\ UNCHANGED dbvars
       \/ /\ pc = "alembic"
          /\ todo # <<>>
          /\ \E transaction_per_migration \in modes :
                AbortedCall(transaction_per_migration)
    /\ pc' = "idle"
    /\ exitCode' = ExitOnInterrupt
    /\ out' = <<"Shutting down...">>
    /\ trip' = NoTrip
    /\ todo' = <<>>
    /\ ret' = "finish"
    /\ tx' = NoTx
    /\ UNCHANGED <<down, cmd, target, steps, locals, log, calls, broken, retry,
                   since, authvars>>

KeyboardInterrupt == KeyboardInterruptUnder(BOOLEAN)

\* the plan branch of migrate: its own copy of the while loop, after its own
\* "if current_rev == head_rev"
PlannedMigrationsWholeChain == Reverse(walk_revisions)

PlannedMigrations ==
    IF get_current_revision = get_current_head THEN <<>>
    ELSE PlanUpgrade(get_current_revision, get_current_head)

\* manage.py migrate --plan
ManageMigratePlan ==
    /\ StartCmd("manage.plan", None, 0)
    /\ current_rev' = get_current_revision
    /\ IF MultipleHeads
       THEN \* script.get_current_head() raises
            /\ head_rev' = None
            /\ migrations_to_apply' = <<>>
            /\ exitCode' = ExitOnException
       ELSE /\ head_rev' = get_current_head
            /\ migrations_to_apply' = PlannedMigrations
            /\ exitCode' = ExitOk
    /\ out' = migrations_to_apply'
    /\ idx' = 0
    /\ UNCHANGED <<dbvars, pc, callvars, trip>>

\* manage.py migrate --downgrade: a revision is rolled back only when it
\* has a down_revision
CanDowngrade(current) == current # None /\ down_revision(current) # None

ManageMigrateDowngrade ==
    /\ StartCmd("manage.downgrade", None, 0)
    /\ current_rev' = get_current_revision
    /\ head_rev' = HeadRevAssigned
    /\ migrations_to_apply' = <<>>
    /\ idx' = 0
    /\ IF MultipleHeads
       THEN \* script.get_current_head() raises before the downgrade branch
            /\ out' = <<>>
            /\ exitCode' = ExitOnException
            /\ trip' = NoTrip
            /\ UNCHANGED <<dbvars, pc, callvars>>
       ELSE IF get_current_revision = None
       THEN /\ out' = <<"No migrations to rollback.">>
            /\ exitCode' = ExitOk
            /\ trip' = TripAfterRollback(1, "downgrade", ExitOk)
            /\ UNCHANGED <<dbvars, pc, callvars>>
       ELSE IF CanDowngrade(get_revision(get_current_revision))
       THEN \* command.downgrade(alembic_cfg, "-1")
            /\ out' = <<>>
            /\ BeginAlembic(DowngradeSteps(get_current_revision,
                                           RelativeWalk(get_current_revision, 1)),
                            "finish")
            /\ exitCode' = -1
            /\ UNCHANGED trip
       ELSE /\ out' = <<"No previous migration to rollback to.">>
            /\ exitCode' = ExitOk
            /\ trip' = TripAfterRollback(1, "downgrade", ExitOk)
            /\ UNCHANGED <<dbvars, pc, callvars>>

(***************************************************************************)
(* scripts/migrate.py: MigrationManager                                    *)
(***************************************************************************)
check_pending_always == TRUE

check_pending_table_missing_ok ==
    IF SelectVersionNum.raised THEN FALSE
    ELSE SelectVersionNum.value # get_current_head

\* check_pending(): True when the table cannot be read, else current != head;
\* False ("Could not check pending migrations") when the head lookup raises
check_pending ==
    IF SelectVersionNum.raised THEN TRUE
    ELSE IF MultipleHeads THEN FALSE
    ELSE SelectVersionNum.value # get_current_head

\* what the readers of the marker take as current: None when the SELECT raises
SelectedRevision ==
    IF SelectVersionNum.raised THEN None ELSE SelectVersionNum.value

\* scripts/migrate.py migrate [revision]; without argument revision is "head"
ScriptsMigrate ==
    \E revision \in Revisions \cup {None} :
       /\ StartCmd("scripts.migrate", revision, 0)
       /\ current_rev' = SelectedRevision
       /\ head_rev' = HeadRevAssigned
       /\ migrations_to_apply' = <<>>
       /\ idx' = 0
       /\ out' = <<>>
       /\ IF ~check_pending
          THEN \* "No pending migrations to apply."
               /\ exitCode' = ExitOk
               /\ UNCHANGED <<dbvars, pc, callvars, trip>>
          ELSE IF revision = None /\ MultipleHeads
          THEN \* command.upgrade(cfg, "head") raises: "Multiple head revisions"
               /\ exitCode' = ExitOnException
               /\ trip' = NoTrip
               /\ \E created \in {tableExists, TRUE} : tableExists' = created
               /\ UNCHANGED <<version_num, schema, pc, callvars>>
          ELSE /\ BeginAlembic(UpgradeSteps(get_current_revision,
                                  IF revision = None THEN get_current_head ELSE revision),
                               "finish")
               /\ exitCode' = -1
               /\ trip' = NoTrip

\* revision = f"-{steps}": how many revisions down the relative target lies
rollback_revision_one(n) == 1

rollback_revision(n) == n

\* scripts/migrate.py rollback -s steps: command.downgrade(cfg, revision)
ScriptsRollback ==
    \E n \in 1..(MaxRevs + 1) :
       /\ StartCmd("scripts.rollback", None, n)
       /\ current_rev' = get_current_revision
       /\ head_rev' = HeadRevAssigned
       /\ migrations_to_apply' = <<>>
       /\ idx' = 0
       /\ out' = <<>>
       /\ IF RelativeWalk(get_current_revision, rollback_revision(n)) = Overwalk
          THEN \* alembic refuses the relative target before any migration runs
               /\ exitCode' = ExitOnException
               /\ trip' = NoTrip
               /\ \E created \in {tableExists, TRUE} : tableExists' = created
               /\ UNCHANGED <<version_num, schema, pc, callvars>>
          ELSE /\ BeginAlembic(DowngradeSteps(get_current_revision,
                                              RelativeWalk(get_current_revision,
                                                           rollback_revision(n))),
                               "finish")
               /\ exitCode' = -1
               /\ UNCHANGED trip

\* the for loop of MigrationManager.showmigrations over the revisions,
\* oldest first
RECURSIVE ShowLoop(_, _, _)
ShowLoop(revisions, found_current, current) ==
    IF revisions = <<>> THEN <<>>
    ELSE LET rev == Head(revisions)
             is_applied == found_current \/ rev = current
         IN  <<[rev |-> rev, status |-> IF is_applied THEN "APPLIED" ELSE "PENDING"]>>
             \o ShowLoop(Tail(revisions), is_applied, current)

\* showmigrations never looks the current revision up among the scripts:
\* it only compares ids, so no exception arises from a revision that is gone
ShowmigrationsExitLookup ==
    IF AlembicCanLocate(get_current_revision) THEN ExitOk ELSE ExitOnException

ShowmigrationsExit == ExitOk

ScriptsShowmigrations ==
    /\ StartCmd("scripts.showmigrations", None, 0)
    /\ current_rev' = SelectedRevision
    /\ head_rev' = HeadRevAssigned
    /\ migrations_to_apply' = <<>>
    /\ idx' = 0
    /\ out' = ShowLoop(Reverse(walk_revisions), SelectedRevision = None, SelectedRevision)
    /\ exitCode' = ShowmigrationsExit
    /\ UNCHANGED <<dbvars, pc, callvars, trip>>

\* scripts/migrate.py check
ScriptsCheckExit == IF check_pending THEN 1 ELSE 0

ScriptsCheck ==
    /\ StartCmd("scripts.check", None, 0)
    /\ current_rev' = SelectedRevision
    /\ head_rev' = HeadRevAssigned
    /\ migrations_to_apply' = <<>>
    /\ idx' = 0
    /\ out' = <<>>
    /\ exitCode' = ScriptsCheckExit
    /\ UNCHANGED <<dbvars, pc, callvars, trip>>

(***************************************************************************)
(* manage.py showmigrations, migrate-check; check_migrations_cli           *)
(***************************************************************************)
\* the mark manage.showmigrations prints before a revision
ManageStatus(rev, current) ==
    IF rev = current THEN "check"
    ELSE IF current # None THEN "hourglass" ELSE "cross"

ManageShowmigrations ==
    /\ StartCmd("manage.showmigrations", None, 0)
    /\ current_rev' = get_current_revision
    /\ head_rev' = HeadRevAssigned
    /\ migrations_to_apply' = <<>>
    /\ idx' = 0
    /\ out' = LET revisions == Reverse(walk_revisions)
              IN  [i \in 1..Len(revisions) |->
                     [rev |-> revisions[i],
                      status |-> ManageStatus(revisions[i], get_current_revision)]]
    /\ exitCode' = ShowmigrationsExit
    /\ UNCHANGED <<dbvars, pc, callvars, trip>>

\* manage.py migrate-check: sys.exit(1) when current_rev != head_rev
MigrateCheckExit ==
    IF MultipleHeads THEN ExitOnException
    ELSE IF get_current_revision # get_current_head THEN 1 ELSE 0

ManageMigrateCheck ==
    /\ StartCmd("manage.migrate-check", None, 0)
    /\ current_rev' = get_current_revision
    /\ head_rev' = HeadRevAssigned
    /\ migrations_to_apply' = <<>>
    /\ idx' = 0
    /\ out' = <<>>
    /\ exitCode' = MigrateCheckExit
    /\ UNCHANGED <<dbvars, pc, callvars, trip>>

\* check_migrations_cli(): return 1 when current_rev != head_rev, else 0
check_migrations_cli ==
    IF MultipleHeads THEN 1
    ELSE IF SelectedRevision # get_current_head THEN 1 ELSE 0

CheckMigrationsCli ==
    /\ StartCmd("check_migrations_cli", None, 0)
    /\ current_rev' = SelectedRevision
    /\ head_rev' = HeadRevAssigned
    /\ migrations_to_apply' = <<>>
    /\ idx' = 0
    /\ out' = <<>>
    /\ exitCode' = check_migrations_cli
    /\ UNCHANGED <<dbvars, pc, callvars, trip>>

(***************************************************************************)
(* readers of the marker: startup hook, current, migrate-current           *)
(***************************************************************************)
\* check_migrations_on_startup(strict): what the hook logs, or raises.
\* connects: engine.connect() reaches the database (it raises otherwise)
StartupVerdict(strict, connects) ==
    IF ~connects
    THEN IF strict THEN "OperationalError"
                   ELSE "Could not check migration status: OperationalError"
    ELSE IF MultipleHeads
    THEN IF strict THEN "CommandError"
                   ELSE "Could not check migration status: CommandError"
    ELSE IF SelectedRevision # get_current_head
    THEN IF strict THEN "RuntimeError: Pending migrations detected."
                   ELSE "WARNING: PENDING MIGRATIONS DETECTED!"
    ELSE "Database migrations are up to date"

\* the except of the hook without "if strict: raise / else: logger.warning"
StartupExitReraises(strict, connects) ==
    IF ~connects \/ MultipleHeads \/ (strict /\ SelectedRevision # get_current_head)
    THEN ExitOnException ELSE ExitOk

\* the hook returns (0) or an exception leaves it (1): only when strict
StartupExit(strict, connects) ==
    IF strict /\ (~connects \/ MultipleHeads \/ SelectedRevision # get_current_head)
    THEN ExitOnException ELSE ExitOk

CheckMigrationsOnStartupUnder(reach) ==
    \E strict \in BOOLEAN, connects \in reach :
       /\ StartCmd(IF strict THEN "startup.strict" ELSE "startup", None, 0)
       /\ current_rev' = IF connects THEN SelectedRevision ELSE None
       /\ head_rev' = IF connects THEN HeadRevAssigned ELSE None
       /\ migrations_to_apply' = <<>>
       /\ idx' = 0
       /\ out' = <<[msg |-> StartupVerdict(strict, connects),
                    rev |-> IF connects THEN SelectedRevision ELSE None]>>
       /\ exitCode' = StartupExit(strict, connects)
       /\ UNCHANGED <<dbvars, pc, callvars, trip>>

\* the database is up
Reachable == {TRUE}

CheckMigrationsOnStartup == CheckMigrationsOnStartupUnder(Reachable)

\* MigrationManager.current(): the inner except takes a SELECT that raises
ScriptsCurrentExitNoInnerExcept ==
    IF SelectVersionNum.raised THEN ExitOnException ELSE ExitOk

ScriptsCurrentExit == ExitOk

ScriptsCurrentMessage ==
    IF SelectVersionNum.raised
    THEN "Migration table doesn't exist. Run migrations first."
    ELSE IF SelectVersionNum.value # None
         THEN "Database is at this revision"
         ELSE "No migrations applied yet"

ScriptsCurrent ==
    /\ StartCmd("scripts.current", None, 0)
    /\ current_rev' = SelectedRevision
    /\ head_rev' = None
    /\ migrations_to_apply' = <<>>
    /\ idx' = 0
    /\ out' = <<[msg |-> ScriptsCurrentMessage, rev |-> SelectedRevision]>>
    /\ exitCode' = ScriptsCurrentExit
    /\ UNCHANGED <<dbvars, pc, callvars, trip>>

\* manage.py migrate-current
ManageCurrentMessage ==
    IF get_current_revision # None THEN "Current migration:"
    ELSE "No migrations applied yet."

ManageMigrateCurrent ==
    /\ StartCmd("manage.migrate-current", None, 0)
    /\ current_rev' = get_current_revision
    /\ head_rev' = None
    /\ migrations_to_apply' = <<>>
    /\ idx' = 0
    /\ out' = <<[msg |-> ManageCurrentMessage, rev |-> get_current_revision]>>
    /\ exitCode' = ExitOk
    /\ UNCHANGED <<dbvars, pc, callvars, trip>>

(***************************************************************************)
(* history: scripts/migrate.py history -l limit, manage.py migrate-history *)
(***************************************************************************)
\* the -l arguments tried: a negative one, none, some, more than there are
HistoryLimits == (0 - 1)..(MaxRevs + 1)

HistorySliceAll(revisions, limit) == revisions

\* revisions[:limit]
HistorySlice(revisions, limit) ==
    SubSeq(revisions, 1,
           IF limit >= 0
           THEN IF limit < Len(revisions) THEN limit ELSE Len(revisions)
           ELSE IF Len(revisions) + limit > 0 THEN Len(revisions) + limit ELSE 0)

\* MigrationManager.history(limit): list(walk_revisions())[:limit]
ScriptsHistory ==
    \E limit \in HistoryLimits :
       /\ StartCmd("scripts.history", None, limit)
       /\ current_rev' = None
       /\ head_rev' = None
       /\ migrations_to_apply' = <<>>
       /\ idx' = 0
       /\ out' = HistorySlice(walk_revisions, limit)
       /\ exitCode' = ExitOk
       /\ UNCHANGED <<dbvars, pc, callvars, trip>>

\* migrate_history(): list(walk_revisions()), then revisions.reverse()
ManageMigrateHistory ==
    /\ StartCmd("manage.migrate-history", None, 0)
    /\ current_rev' = None
    /\ head_rev' = None
    /\ migrations_to_apply' = <<>>
    /\ idx' = 0
    /\ out' = Reverse(walk_revisions)
    /\ exitCode' = ExitOk
    /\ UNCHANGED <<dbvars, pc, callvars, trip>>

(***************************************************************************)
(* The specification                                                       *)
(***************************************************************************)
Next ==
    \/ ManageMigrate
    \/ ManageLoopNext
    \/ ManageLoopEnd
    \/ ManageMigratePlan
    \/ ManageMigrateDowngrade
    \/ ScriptsMigrate
    \/ ScriptsRollback
    \/ AlembicStepOk
    \/ AlembicStepFails
    \/ AlembicReturn
    \/ ScriptsShowmigrations
    \/ ScriptsCheck
    \/ ManageShowmigrations
    \/ ManageMigrateCheck
    \/ CheckMigrationsCli
    \/ CheckMigrationsOnStartup
    \/ ScriptsCurrent
    \/ ManageMigrateCurrent
    \/ KeyboardInterrupt
    \/ ScriptsHistory
    \/ ManageMigrateHistory

Spec == Init /\ [][Next]_vars

(***************************************************************************)
(* The same commands with the env.py of the written specification: every   *)
(* migration runs and commits in a transaction of its own, so a failing    *)
(* call leaves the migrations it completed in place                        *)
(***************************************************************************)
TransactionPerMigration == {TRUE}

AlembicStepFailsPerStep == AlembicStepFailsUnder(TransactionPerMigration)

KeyboardInterruptPerStep == KeyboardInterruptUnder(TransactionPerMigration)

NextPerStep ==
    \/ ManageMigrate
    \/ ManageLoopNext
    \/ ManageLoopEnd
    \/ ManageMigratePlan
    \/ ManageMigrateDowngrade
    \/ ScriptsMigrate
    \/ ScriptsRollback
    \/ AlembicStepOk
    \/ AlembicStepFailsPerStep
    \/ AlembicReturn
    \/ KeyboardInterruptPerStep

SpecPerStep == Init /\ [][NextPerStep]_vars

(***************************************************************************)
(* A revision script is removed while the database still names it          *)
(***************************************************************************)
\* the developer deletes the newest revision script from alembic/versions
RemoveHeadScript ==
    /\ pc = "idle"
    /\ get_current_head # None
    /\ down' = [r \in Revisions \ {get_current_head} |-> down[r]]
    /\ cmd' = "developer.rm"
    /\ target' = None
    /\ steps' = 0
    /\ log' = <<>>
    /\ out' = <<>>
    /\ exitCode' = ExitOk
    /\ current_rev' = None
    /\ head_rev' = None
    /\ migrations_to_apply' = <<>>
    /\ idx' = 0
    /\ trip' = NoTrip
    /\ calls' = <<>>
    /\ retry' = NoRetry
    /\ UNCHANGED <<dbvars, pc, callvars, broken, since, authvars>>

NextStale ==
    \/ ManageMigrate
    \/ ManageLoopNext
    \/ ManageLoopEnd
    \/ AlembicStepOk
    \/ AlembicStepFails
    \/ AlembicReturn
    \/ ManageMigratePlan
    \/ ScriptsShowmigrations
    \/ ManageShowmigrations
    \/ RemoveHeadScript

SpecStale == Init /\ [][NextStale]_vars

(***************************************************************************)
(* Retry after a fix: one revision script may raise in upgrade() until the *)
(* developer repairs it; manage.py migrate is run, and run again           *)
(***************************************************************************)
InitRetry == InitBase /\ broken \in Revisions \cup {None}

\* the developer repairs the revision script whose upgrade() raises
FixScript ==
    /\ pc = "idle"
    /\ broken # None
    /\ broken' = None
    /\ UNCHANGED <<down, dbvars, pc, cmd, target, steps, locals, callvars,
                   exitCode, out, log, trip, calls, retry,
                   since, authvars>>

\* manage.py migrate, no target given
ManageMigrateHead == ManageMigrate /\ target' = None

\* the migration runs through: its script is not the broken one
AlembicStepOkSound ==
    /\ pc = "alembic"
    /\ todo # <<>>
    /\ Head(todo).rev # broken
    /\ AlembicStepOk

\* the migration raises: its script is the broken one
AlembicStepFailsBroken ==
    /\ pc = "alembic"
    /\ todo # <<>>
    /\ Head(todo).rev = broken
    /\ AlembicStepFails

\* a started run goes on: the loop, the call and the migration in it
RunOn ==
    \/ ManageLoopNext
    \/ ManageLoopEnd
    \/ AlembicStepOkSound
    \/ AlembicStepFailsBroken
    \/ AlembicReturn

NextRetry ==
    \/ ManageMigrateHead
    \/ FixScript
    \/ RunOn

SpecRetry == InitRetry /\ [][NextRetry]_vars /\ WF_vars(RunOn)

(***************************************************************************)
(* A second writer: while manage.py migrate is between two of its calls,   *)
(* another process migrates or rolls back the same database                *)
(***************************************************************************)
\* the database is as the calls of the run have left it: no other writer
\* has touched it since the run began
UntouchedByOthers ==
    /\ Len(log) = Len(calls)
    /\ get_current_revision = IF calls = <<>> THEN current_rev ELSE calls[Len(calls)]

\* the other writer steps in once in a run
OtherWriter ==
    /\ cmd = "manage.migrate"
    /\ pc = "manage_loop"
    /\ UntouchedByOthers
    /\ \E r \in (Revisions \cup {None}) \ {get_current_revision} :
          /\ tableExists' = TRUE
          /\ version_num' = r
          /\ schema' = Ancestors(r)
    /\ UNCHANGED <<down, pc, cmd, target, steps, locals, callvars, exitCode, out,
                   log, trip, calls, broken, retry,
                   since, authvars>>

NextConcurrent ==
    \/ ManageMigrateHead
    \/ ManageLoopNext
    \/ ManageLoopEnd
    \/ AlembicStepOk
    \/ AlembicStepFails
    \/ AlembicReturn
    \/ OtherWriter

SpecConcurrent == Init /\ [][NextConcurrent]_vars

(***************************************************************************)
(* Any set of revision scripts: branches and several roots included, and a *)
(* database that the startup hook may fail to reach                        *)
(***************************************************************************)
\* r, down[r], down[down[r]], ... meets None within n steps
RECURSIVE ReachesBase(_, _, _)
ReachesBase(f, r, n) ==
    IF r = None THEN TRUE
    ELSE IF n = 0 \/ r \notin DOMAIN f THEN FALSE
    ELSE ReachesBase(f, f[r], n - 1)

\* the revision scripts alembic loads: every down_revision is None or
\* another script, and no script is below itself
ScriptSets ==
    {f \in UNION {[S -> RevIds \cup {None}] : S \in SUBSET RevIds} :
        \A r \in DOMAIN f : ReachesBase(f, r, MaxRevs)}

InitGraph ==
    /\ down \in ScriptSets
    /\ InitRest
    /\ broken = None

\* the database is up, or down
ReachableOrNot == BOOLEAN

CheckMigrationsOnStartupAnyDb == CheckMigrationsOnStartupUnder(ReachableOrNot)

NextGraph ==
    \/ ManageMigrate
    \/ ManageLoopNext
    \/ ManageLoopEnd
    \/ ManageMigratePlan
    \/ ManageMigrateDowngrade
    \/ ScriptsMigrate
    \/ AlembicStepOk
    \/ AlembicStepFails
    \/ AlembicReturn
    \/ ScriptsCheck
    \/ ManageMigrateCheck
    \/ CheckMigrationsCli
    \/ CheckMigrationsOnStartupAnyDb

SpecGraph == InitGraph /\ [][NextGraph]_vars

(***************************************************************************)
(* manage.py makemigrations: revision scripts are written while the        *)
(* database is migrated and rolled back                                    *)
(***************************************************************************)
\* the id command.revision gives the script it writes
FreshRevision ==
    CHOOSE r \in RevIds \ Revisions : \A q \in RevIds \ Revisions : r <= q

\* the scripts after command.revision: the new script is put on the head
RevisionWritten ==
    [r \in Revisions \cup {FreshRevision} |->
        IF r = FreshRevision THEN get_current_head ELSE down[r]]

MakemigrationsRefusesNever(connects) == FALSE

\* "Check if database is up to date first": current_rev != head_rev ends the
\* command with sys.exit(1); an exception on the way (no connection, a head
\* lookup that raises) is passed over
MakemigrationsRefuses(connects) ==
    connects /\ ~MultipleHeads /\ get_current_revision # get_current_head

MakemigrationsOutcomeIgnoresDryRun(empty, dry_run, connects, changes) ==
    IF MakemigrationsRefuses(connects) THEN "refused"
    ELSE IF MultipleHeads \/ (~empty /\ ~connects) THEN "failed"
    ELSE "created"

\* how the command ends.  changes: the comparison of the models with the
\* database leaves real_changes non-empty
MakemigrationsOutcome(empty, dry_run, connects, changes) ==
    IF MakemigrationsRefuses(connects) THEN "refused"
    ELSE IF empty
    THEN IF dry_run THEN "dry-run"
         ELSE IF MultipleHeads THEN "failed"
         ELSE "created"
    ELSE IF connects /\ ~changes THEN "no changes"
    ELSE IF dry_run THEN "dry-run"
    ELSE \* command.revision(autogenerate=True) runs env.py against the database
         IF ~connects \/ MultipleHeads THEN "failed"
         ELSE "created"

MakemigrationsExit(outcome) ==
    IF outcome \in {"refused", "failed"} THEN ExitOnException ELSE ExitOk

ManageMakemigrationsUnder(reach) ==
    \E empty \in BOOLEAN, dry_run \in BOOLEAN, connects \in reach, changes \in BOOLEAN :
       LET outcome == MakemigrationsOutcome(empty, dry_run, connects, changes)
       IN  /\ pc = "idle"
           /\ outcome = "created" => RevIds \ Revisions # {}
           /\ cmd' = IF dry_run THEN "manage.makemigrations --dry-run"
                                ELSE "manage.makemigrations"
           /\ target' = None
           /\ steps' = 0
           /\ log' = <<>>
           /\ calls' = <<>>
           /\ retry' = NoRetry
           /\ trip' = NoTrip
           /\ current_rev' = IF connects THEN get_current_revision ELSE None
           /\ head_rev' = IF connects THEN HeadRevAssigned ELSE None
           /\ migrations_to_apply' = <<>>
           /\ idx' = 0
           /\ out' = <<[msg |-> outcome, reached |-> connects]>>
           /\ exitCode' = MakemigrationsExit(outcome)
           /\ down' = IF outcome = "created" THEN RevisionWritten ELSE down
           /\ since' = [since EXCEPT !.blind = @ \/ (outcome = "created" /\ ~connects)]
           /\ UNCHANGED <<dbvars, pc, callvars, broken, authvars>>

ManageMakemigrations == ManageMakemigrationsUnder(ReachableOrNot)

\* the database is up to date: every revision script is applied
InitUpToDate ==
    /\ \E s \in ChainSeqs : down = DownOf(s)
    /\ tableExists = (get_current_head # None)
    /\ version_num = get_current_head
    /\ schema = Revisions
    /\ InitIdle
    /\ broken = None

NextAuthoring ==
    \/ ManageMakemigrations
    \/ ManageMigrate
    \/ ManageLoopNext
    \/ ManageLoopEnd
    \/ ManageMigratePlan
    \/ ManageMigrateDowngrade
    \/ AlembicStepOk
    \/ AlembicStepFails
    \/ AlembicReturn
    \/ KeyboardInterrupt

SpecAuthoring == InitUpToDate /\ [][NextAuthoring]_vars

(***************************************************************************)
(* The authentication service: table users behind its unique indexes, the  *)
(* tokens it issues, and the requests of apps/auth_service                 *)
(***************************************************************************)
MaxUsers == 2

UserIds == 1..MaxUsers

Emails == {"ann@x", "bob@x"}

Usernames == {"ann", "bob"}

\* a field the UserUpdate body leaves out (exclude_unset=True)
Unset == "unset"

\* a token decode_token returns None for: bad signature, expired, garbage
Undecodable == [type |-> "undecodable", user_id |-> 0]

\* the ids of the stored users
Stored == DOMAIN users

\* the unique indexes ix_users_email and ix_users_username refuse the rows
UniqueViolationIgnored(rows) == FALSE

UniqueViolation(rows) ==
    \E i, j \in DOMAIN rows :
       /\ i # j
       /\ rows[i].email = rows[j].email \/ rows[i].username = rows[j].username

\* create_user: db.query(User).filter((email == ...) | (username == ...)).first()
existing_user(email, username) ==
    \E u \in Stored : users[u].email = email \/ users[u].username = username

\* db.query(User).filter(User.email == email).first(): the id, 0 for None
get_user_by_email(email) ==
    IF \E u \in Stored : users[u].email = email
    THEN CHOOSE u \in Stored : users[u].email = email
    ELSE 0

\* the row create_user adds: is_active and role take the column defaults
NewUser(request) ==
    [email |-> request.email, username |-> request.username,
     is_active |-> TRUE, role |-> "user"]

\* create_access_token / create_refresh_token over the token data of a user
create_access_token(user_id) == [type |-> "access", user_id |-> user_id]

create_refresh_token(user_id) == [type |-> "refresh", user_id |-> user_id]

\* the tokens a client can present: one that was issued, or one that does
\* not decode
Presentable == tokens \cup {Undecodable}

\* get_current_user(token): the user the request is authenticated as (0 and
\* 401 when it is not)
Unauthorized == [status |-> 401, user |-> 0]

get_current_user_any_type(token) ==
    IF token = Undecodable THEN Unauthorized
    ELSE IF token.user_id \notin Stored THEN Unauthorized
    ELSE IF ~users[token.user_id].is_active THEN Unauthorized
    ELSE [status |-> 200, user |-> token.user_id]

get_current_user_inactive_too(token) ==
    IF token = Undecodable THEN Unauthorized
    ELSE IF token.type # "access" THEN Unauthorized
    ELSE [status |-> 200, user |-> token.user_id]

get_current_user(token) ==
    IF token = Undecodable THEN Unauthorized
    ELSE IF token.type # "access" THEN Unauthorized
    ELSE IF token.user_id \notin Stored THEN Unauthorized
    ELSE IF ~users[token.user_id].is_active THEN Unauthorized
    ELSE [status |-> 200, user |-> token.user_id]

\* get_admin_user over get_current_active_user: 403 unless the stored role
\* of the caller is admin
get_admin_user_any_role(token) == get_current_user(token)

get_admin_user(token) ==
    LET current_user == get_current_user(token)
    IN  IF current_user.status # 200 THEN current_user
        ELSE IF users[current_user.user].role # "admin"
        THEN [status |-> 403, user |-> current_user.user]
        ELSE current_user

\* get_user / update_user: "if current_user.id != user_id and
\* current_user.role.value != 'admin'": 403
own_or_admin_skipped(token, user_id) == get_current_user(token)

own_or_admin(token, user_id) ==
    LET current_user == get_current_user(token)
    IN  IF current_user.status # 200 THEN current_user
        ELSE IF current_user.user # user_id /\ users[current_user.user].role # "admin"
        THEN [status |-> 403, user |-> current_user.user]
        ELSE current_user

Response(op, status, caller, subject, token) ==
    [op |-> op, status |-> status, caller |-> caller, subject |-> subject,
     token |-> token]

\* everything of the migration commands
migvars == <<down, tableExists, version_num, schema, pc, cmd, target, steps,
             current_rev, head_rev, migrations_to_apply, idx, todo, ret, tx,
             exitCode, out, log, trip, calls, broken, retry, since>>

\* POST /register, first half of create_user: the query for an existing user
RegisterQuery(sessions) ==
    \E s \in sessions, email \in Emails, username \in Usernames :
       /\ registering[s] = NoRequest
       /\ IF existing_user(email, username)
          THEN \* 409 Conflict
               /\ resp' = Response("register", 409, 0, 0, "none")
               /\ UNCHANGED registering
          ELSE /\ registering' = [registering EXCEPT
                                     ![s] = [email |-> email, username |-> username]]
               /\ resp' = Response("register.query", 0, 0, 0, "none")
       /\ UNCHANGED <<users, next_id, tokens, migvars, deactivated>>

\* second half of create_user: db.add, db.commit; IntegrityError: rollback, raise
RegisterCommit ==
    \E s \in Sessions :
       /\ registering[s] # NoRequest
       /\ LET rows == [u \in Stored \cup {next_id} |->
                          IF u = next_id THEN NewUser(registering[s]) ELSE users[u]]
          IN  IF UniqueViolation(rows)
              THEN /\ resp' = Response("register", 500, 0, 0, "none")
                   /\ UNCHANGED <<users, next_id>>
              ELSE /\ next_id <= MaxUsers
                   /\ users' = rows
                   /\ next_id' = next_id + 1
                   /\ resp' = Response("register", 201, 0, next_id, "none")
       /\ registering' = [registering EXCEPT ![s] = NoRequest]
       /\ UNCHANGED <<tokens, migvars, deactivated>>

\* authenticate_user: 0 for None, ForbiddenError for an inactive account.
\* correct: verify_password(password, user.hashed_password)
authenticate_user_inactive_too(email, correct) ==
    IF get_user_by_email(email) = 0 \/ ~correct THEN [status |-> 401, user |-> 0]
    ELSE [status |-> 200, user |-> get_user_by_email(email)]

authenticate_user(email, correct) ==
    IF get_user_by_email(email) = 0 \/ ~correct THEN [status |-> 401, user |-> 0]
    ELSE IF ~users[get_user_by_email(email)].is_active
    THEN [status |-> 403, user |-> 0]
    ELSE [status |-> 200, user |-> get_user_by_email(email)]

\* POST /login: create_tokens for the authenticated user
Login ==
    \E email \in Emails, correct \in BOOLEAN :
       LET user == authenticate_user(email, correct)
       IN  /\ tokens' = IF user.status = 200
                        THEN tokens \cup {create_access_token(user.user),
                                          create_refresh_token(user.user)}
                        ELSE tokens
           /\ resp' = Response("login", user.status, user.user,
                               get_user_by_email(email), "none")
           /\ UNCHANGED <<users, next_id, registering, migvars, deactivated>>

\* refresh_access_token: 401 unless the token decodes and its type is refresh
refresh_access_token_any_type(refresh_token) ==
    IF refresh_token = Undecodable THEN 401 ELSE 200

refresh_access_token(refresh_token) ==
    IF refresh_token = Undecodable THEN 401
    ELSE IF refresh_token.type # "refresh" THEN 401
    ELSE 200

\* POST /refresh: a new access token over the payload of the refresh token
Refresh ==
    \E refresh_token \in Presentable :
       /\ tokens' = IF refresh_access_token(refresh_token) = 200
                    THEN tokens \cup {create_access_token(refresh_token.user_id)}
                    ELSE tokens
       /\ resp' = Response("refresh", refresh_access_token(refresh_token), 0,
                           refresh_token.user_id, refresh_token.type)
       /\ UNCHANGED <<users, next_id, registering, migvars, deactivated>>

\* GET /me
Me ==
    \E token \in Presentable :
       /\ resp' = Response("me", get_current_user(token).status,
                           get_current_user(token).user, token.user_id, token.type)
       /\ UNCHANGED <<users, next_id, registering, tokens, migvars, deactivated>>

\* GET /users/: admin only
GetUsers ==
    \E token \in Presentable :
       /\ resp' = Response("get_users", get_admin_user(token).status,
                           get_admin_user(token).user, 0, token.type)
       /\ UNCHANGED <<users, next_id, registering, tokens, migvars, deactivated>>

\* GET /users/{user_id}: 404 when the user is not stored
GetUser ==
    \E token \in Presentable, user_id \in UserIds :
       LET allowed == own_or_admin(token, user_id)
       IN  /\ resp' = Response("get_user",
                               IF allowed.status # 200 THEN allowed.status
                               ELSE IF user_id \in Stored THEN 200 ELSE 404,
                               allowed.user, user_id, token.type)
           /\ UNCHANGED <<users, next_id, registering, tokens, migvars, deactivated>>

\* the bodies of PUT /users/{user_id}: no field set, or one
UserUpdates ==
    {user_data \in [email : Emails \cup {Unset}, username : Usernames \cup {Unset},
                    is_active : {"true", "false", Unset}] :
        Cardinality({f \in {"email", "username", "is_active"} :
                        user_data[f] # Unset}) <= 1}

\* update_user: setattr for every field the body sets
Updated(row, user_data) ==
    [email |-> IF user_data.email = Unset THEN row.email ELSE user_data.email,
     username |-> IF user_data.username = Unset THEN row.username
                  ELSE user_data.username,
     is_active |-> IF user_data.is_active = Unset THEN row.is_active
                   ELSE user_data.is_active = "true",
     role |-> row.role]

\* PUT /users/{user_id}: 404 when the user is not stored; the commit raises
\* IntegrityError (500) against the unique indexes
UpdateUser ==
    \E token \in Presentable, user_id \in UserIds, user_data \in UserUpdates :
       LET allowed == own_or_admin(token, user_id)
           rows == [u \in Stored |->
                       IF u = user_id THEN Updated(users[u], user_data) ELSE users[u]]
           status == IF allowed.status # 200 THEN allowed.status
                     ELSE IF user_id \notin Stored THEN 404
                     ELSE IF UniqueViolation(rows) THEN 500
                     ELSE 200
       IN  /\ users' = IF status = 200 THEN rows ELSE users
           /\ resp' = Response("update_user", status, allowed.user, user_id, token.type)
           /\ deactivated' = IF status = 200 /\ user_data.is_active = "false"
                             THEN deactivated \cup {user_id}
                             ELSE deactivated
           /\ UNCHANGED <<next_id, registering, tokens, migvars>>

\* DELETE /users/{user_id}: admin only; 404 when the user is not stored
DeleteUser ==
    \E token \in Presentable, user_id \in UserIds :
       LET allowed == get_admin_user(token)
           status == IF allowed.status # 200 THEN allowed.status
                     ELSE IF user_id \notin Stored THEN 404
                     ELSE 204
       IN  /\ users' = IF status = 204
                       THEN [u \in Stored \ {user_id} |-> users[u]]
                       ELSE users
           /\ resp' = Response("delete_user", status, allowed.user, user_id, token.type)
           /\ deactivated' = IF status = 204 THEN deactivated \ {user_id}
                             ELSE deactivated
           /\ UNCHANGED <<next_id, registering, tokens, migvars>>

Register == RegisterQuery(Sessions)

\* registrations side by side, updates and deletions
NextAuth ==
    \/ Register
    \/ RegisterCommit
    \/ UpdateUser
    \/ DeleteUser

\* the revision that creates table users is applied; one administrator was
\* put into the table by hand (no request sets a role) and has logged in
Administrator ==
    [email |-> "ann@x", username |-> "ann", is_active |-> TRUE, role |-> "admin"]

InitAuth ==
    /\ down = DownOf(<<1>>)
    /\ tableExists = TRUE
    /\ version_num = 1
    /\ schema = {1}
    /\ broken = None
    /\ since = NoSince
    /\ pc = "idle"
    /\ cmd = "none"
    /\ target = None
    /\ steps = 0
    /\ current_rev = None
    /\ head_rev = None
    /\ migrations_to_apply = <<>>
    /\ idx = 0
    /\ todo = <<>>
    /\ ret = "finish"
    /\ tx = NoTx
    /\ exitCode = 0
    /\ out = <<>>
    /\ log = <<>>
    /\ trip = NoTrip
    /\ calls = <<>>
    /\ retry = NoRetry
    /\ users = (1 :> Administrator)
    /\ next_id = 2
    /\ registering = [s \in Sessions |-> NoRequest]
    /\ tokens = {create_access_token(1), create_refresh_token(1)}
    /\ resp = NoResponse
    /\ deactivated = {}

SpecAuth == InitAuth /\ [][NextAuth]_vars

\* every request, one registration at a time
OneSession == {1}

RegisterAlone == RegisterQuery(OneSession)

NextAccess ==
    \/ RegisterAlone
    \/ RegisterCommit
    \/ Login
    \/ Refresh
    \/ Me
    \/ GetUsers
    \/ GetUser
    \/ UpdateUser
    \/ DeleteUser

SpecAccess == InitAuth /\ [][NextAccess]_vars

(***************************************************************************)
(* Vocabulary of the properties                                            *)
(***************************************************************************)
\* the chain R1..Rn, oldest first
Chain == CHOOSE s \in ChainSeqs : DownOf(s) = down

ChainLen == Len(Chain)

\* k for revision Rk, 0 for none
Pos(r) ==
    IF r = None THEN 0
    ELSE LET chain == Chain
         IN  CHOOSE i \in 1..Len(chain) : chain[i] = r

\* R(k), none for k = 0
Rev(k) == IF k = 0 THEN None ELSE Chain[k]

\* the persisted current revision: none without marker table or row
AppliedState == IF tableExists /\ version_num # None THEN version_num ELSE None

Failed == {i \in 1..Len(log) : ~log[i].ok}

\* the command was stopped by Ctrl-C
Interrupted == out = <<"Shutting down...">>

MigrateRan == cmd = "manage.migrate" /\ target = None

(***************************************************************************)
(* C1: when the apply of the k-th planned revision fails during            *)
(* manage.py migrate without target, the run ends at once with the error   *)
(* propagated (exit code 1): the applies attempted are exactly planned     *)
(* revisions 1..k in order, nothing after the k-th is attempted, nothing   *)
(* is reverted, the effects of revisions 1..k-1 stay in place and          *)
(* AppliedState is revision k-1 of the plan (its value before the run      *)
(* when k = 1).                                                            *)
(***************************************************************************)
C1_MigrateStopsAtFirstFailure ==
    (MigrateRan /\ Failed # {}) =>
        LET k == Len(log)
        IN  /\ Failed = {k}
            /\ pc = "idle"
            /\ exitCode = 1
            /\ k <= Len(migrations_to_apply)
            /\ \A i \in 1..k : log[i].op = "apply" /\ log[i].rev = migrations_to_apply[i]
            /\ AppliedState = IF k = 1 THEN current_rev ELSE migrations_to_apply[k - 1]
            /\ \A i \in 1..Len(migrations_to_apply) :
                  migrations_to_apply[i] \in schema <=> i < k

\* the run R1,R2,R3 from nothing with the apply of R2 failing
C1_Witness ==
    /\ MigrateRan
    /\ current_rev = None
    /\ Len(migrations_to_apply) = 3
    /\ Failed = {2}
    /\ AppliedState = Chain[1]

(***************************************************************************)
(* C2: for every current revision c in {none, R1..R(n-1)} the plan built   *)
(* by manage.py migrate (and migrate --plan) is the revisions strictly     *)
(* after c, oldest first: R(c+1)..Rn.                                      *)
(***************************************************************************)
C2_PlanIsRevisionsAfterCurrent ==
    (cmd \in {"manage.migrate", "manage.plan"} /\ current_rev # head_rev) =>
        migrations_to_apply = SubSeq(Chain, Pos(current_rev) + 1, ChainLen)

\* c = R1 in R1..R3: the plan is R2, R3
C2_Witness ==
    /\ cmd = "manage.migrate"
    /\ ChainLen = 3
    /\ current_rev = Chain[1]
    /\ migrations_to_apply = <<Chain[2], Chain[3]>>

(***************************************************************************)
(* C3: when the current revision equals the head revision, migrate of      *)
(* manage.py and of scripts/migrate.py is a no-op: the plan is empty, no   *)
(* upgrade call is made, no apply runs, AppliedState is unchanged and the  *)
(* command ends with exit code 0.                                          *)
(***************************************************************************)
C3_MigrateAtHeadIsNoOp ==
    (/\ cmd \in {"manage.migrate", "scripts.migrate"}
     /\ head_rev # None
     /\ current_rev = head_rev) =>
        /\ pc = "idle"
        /\ log = <<>>
        /\ migrations_to_apply = <<>>
        /\ AppliedState = current_rev
        /\ exitCode = 0

\* scripts/migrate.py migrate with the database at head
C3_Witness ==
    /\ cmd = "scripts.migrate"
    /\ head_rev # None
    /\ current_rev = head_rev
    /\ ChainLen >= 2

(***************************************************************************)
(* C4: for every AppliedState a in {none, R1..Rn} showmigrations lists the *)
(* revisions oldest first and marks every revision up to and including a   *)
(* as applied and every revision after a as pending.                       *)
(***************************************************************************)
AppliedMark == {"APPLIED", "check"}

C4_ShowmigrationsClassifies ==
    (cmd \in {"scripts.showmigrations", "manage.showmigrations"}) =>
        /\ Len(out) = ChainLen
        /\ \A i \in 1..Len(out) :
              /\ out[i].rev = Chain[i]
              /\ out[i].status \in AppliedMark <=> i <= Pos(AppliedState)

(***************************************************************************)
(* C5: round trip: from AppliedState none on a chain of length n, migrate  *)
(* to head and then a roll back of n revisions in all (rollback with       *)
(* steps = n, or n successive single-step downgrades) ends with            *)
(* AppliedState none.                                                      *)
(***************************************************************************)
C5_RoundTripReturnsToNone ==
    (pc = "idle" /\ ChainLen >= 1 /\ trip.n = ChainLen) => AppliedState = None

(***************************************************************************)
(* C6: a successful manage.py migrate --downgrade from current revision r  *)
(* leaves AppliedState at the predecessor of r, none when r is the root;   *)
(* with AppliedState none it changes nothing.                              *)
(***************************************************************************)
C6_DowngradeSetsPredecessor ==
    (cmd = "manage.downgrade" /\ pc = "idle" /\ exitCode = 0) =>
        AppliedState = Rev(IF current_rev = None THEN 0 ELSE Pos(current_rev) - 1)

(***************************************************************************)
(* C7: rollback(steps) with current revision Rk and 1 <= steps <= k        *)
(* reverts Rk, R(k-1), ... in this order and nothing else: after j         *)
(* successful reverts AppliedState is R(k-j), and the command ends after   *)
(* exactly steps reverts at R(k-steps), none when steps = k.               *)
(***************************************************************************)
C7_RollbackRevertsNewestFirst ==
    (cmd = "scripts.rollback" /\ 1 <= steps /\ steps <= Pos(current_rev)) =>
        LET k == Pos(current_rev)
            j == Len(log)
        IN  /\ j <= steps
            /\ \A i \in 1..j : log[i].op = "revert" /\ log[i].rev = Rev(k - i + 1)
            /\ (pc = "alembic" /\ Failed = {}) => AppliedState = Rev(k - j)
            /\ (pc = "idle" /\ Failed = {}) =>
                  /\ j = steps
                  /\ exitCode = 0
                  /\ AppliedState = Rev(k - steps)
                  /\ schema = {Rev(i) : i \in 1..(k - steps)}

\* rollback(2) from R3 has ended at R1
C7_Witness ==
    /\ cmd = "scripts.rollback"
    /\ steps = 2
    /\ Pos(current_rev) = 3
    /\ pc = "idle"
    /\ Failed = {}
    /\ AppliedState = Chain[1]

(***************************************************************************)
(* C8: rollback(steps) with steps > k at current revision Rk reverts all   *)
(* k applied revisions, ends with AppliedState none and exit code 0.       *)
(***************************************************************************)
C8_RollbackPastRootReachesNone ==
    (cmd = "scripts.rollback" /\ pc = "idle" /\ current_rev # None
     /\ steps > Pos(current_rev)) =>
        /\ exitCode = 0
        /\ AppliedState = None

(***************************************************************************)
(* C8 as the code has it: rollback(steps) with steps > k at current        *)
(* revision Rk fails before any revert: no revision is reverted,           *)
(* AppliedState stays Rk and the command ends with exit code 1.            *)
(***************************************************************************)
C8_RollbackPastRootFails ==
    (cmd = "scripts.rollback" /\ current_rev # None /\ steps > Pos(current_rev)) =>
        /\ pc = "idle"
        /\ log = <<>>
        /\ exitCode = 1
        /\ AppliedState = current_rev
        /\ schema = {Rev(i) : i \in 1..Pos(current_rev)}

\* rollback(3) asked at R2
C8_Witness ==
    /\ cmd = "scripts.rollback"
    /\ steps = 3
    /\ Pos(current_rev) = 2
    /\ pc = "idle"

(***************************************************************************)
(* C9: on a chain with a head, manage.py migrate-check, scripts/migrate.py *)
(* check and check_migrations_cli end with exit code 1 when the current    *)
(* revision differs from head and with 0 otherwise; a missing marker table *)
(* or row counts as current = none.                                        *)
(***************************************************************************)
CheckCommands == {"manage.migrate-check", "scripts.check", "check_migrations_cli"}

MigrateCommands == {"manage.migrate", "manage.downgrade", "scripts.migrate", "scripts.rollback"}

C10_MigrateExitCode ==
    (cmd \in MigrateCommands /\ pc = "idle") =>
        /\ Failed # {} => exitCode # 0
        /\ (Failed = {} /\ ~(cmd = "scripts.rollback" /\ steps > Pos(current_rev)))
              => exitCode = 0

\* a rollback whose second revert failed
C10_Witness ==
    /\ cmd = "scripts.rollback"
    /\ pc = "idle"
    /\ Failed = {2}
    /\ exitCode = 1

(***************************************************************************)
(* C11: a reader that finds no marker table and a reader that finds the    *)
(* table without a row both take the current revision to be none, neither  *)
(* ends with an error, and whenever the chain has a head both give the     *)
(* verdict of a database with nothing applied: pending.  What each reader  *)
(* reports is fixed by the chain alone, whichever of the two cases holds.  *)
(***************************************************************************)
Readers ==
    {"startup", "startup.strict", "scripts.check", "scripts.showmigrations",
     "scripts.current", "manage.showmigrations", "manage.migrate-check",
     "manage.migrate-current", "check_migrations_cli"}

\* the rows of showmigrations, every revision carrying the same mark
AllMarked(mark) == [i \in 1..ChainLen |-> [rev |-> Chain[i], status |-> mark]]

C11_WitnessCurrent ==
    /\ cmd = "scripts.current"
    /\ tableExists
    /\ version_num = None
    /\ ChainLen >= 1

(***************************************************************************)
(* C12 (as stated): when AppliedState holds a revision id that no revision *)
(* script carries, showmigrations ends with a revision-not-found error and *)
(* prints no classification.                                               *)
(***************************************************************************)
ShowCommands == {"scripts.showmigrations", "manage.showmigrations"}

\* the marker names a revision that is not in the chain
StaleMarker == AppliedState # None /\ AppliedState \notin Revisions

C12_ShowmigrationsFailsOnStaleMarker ==
    (cmd \in ShowCommands /\ StaleMarker) => (exitCode # 0 /\ out = <<>>)

(***************************************************************************)
(* C12 (amended): when AppliedState holds a revision id that no revision   *)
(* script carries, showmigrations does not fail: it ends with exit code 0  *)
(* and lists every revision of the chain as not applied (PENDING in        *)
(* scripts/migrate.py, the hourglass in manage.py).                        *)
(***************************************************************************)
C12_ShowmigrationsListsAllPendingOnStaleMarker ==
    (cmd \in ShowCommands /\ StaleMarker) =>
        /\ exitCode = 0
        /\ current_rev = AppliedState
        /\ cmd = "scripts.showmigrations" => out = AllMarked("PENDING")
        /\ cmd = "manage.showmigrations" => out = AllMarked("hourglass")

\* showmigrations ran over a chain of at least one revision, the marker
\* naming a revision whose script is gone
C12_Witness ==
    /\ cmd = "scripts.showmigrations"
    /\ StaleMarker
    /\ ChainLen >= 1
    /\ Len(out) = ChainLen

(***************************************************************************)
(* C13 (as stated): when the walk back from the head reaches the root      *)
(* without meeting the current revision (a non-none revision that is not   *)
(* an ancestor of the head), planning fails with an error: no plan is      *)
(* returned and no apply is executed.                                      *)
(***************************************************************************)
PlanCommands == {"manage.migrate", "manage.plan"}

\* the revision the command read at its start is not in the chain
CurrentNotInChain == current_rev # None /\ current_rev \notin Revisions

C13_PlanningFailsOnUnreachableCurrent ==
    (cmd \in PlanCommands /\ pc = "idle" /\ CurrentNotInChain) =>
        /\ exitCode # 0
        /\ migrations_to_apply = <<>>
        /\ out = <<>>
        /\ log = <<>>

(***************************************************************************)
(* C13 (amended): when the walk back from the head reaches the root        *)
(* without meeting the current revision, planning does not fail: the plan  *)
(* is the whole chain R1..Rn, migrate --plan prints it and ends with exit  *)
(* code 0, and migrate fails only in its first command.upgrade call, which *)
(* cannot locate the current revision: no apply is executed, AppliedState  *)
(* keeps its value and the exit code is 1.                                 *)
(***************************************************************************)
C13_PlanIsWholeChainOnUnreachableCurrent ==
    (cmd \in PlanCommands /\ CurrentNotInChain) =>
        /\ migrations_to_apply = Chain
        /\ log = <<>>
        /\ AppliedState = current_rev
        /\ cmd = "manage.plan" => (out = Chain /\ exitCode = 0)
        /\ (cmd = "manage.migrate" /\ pc = "idle") => exitCode = 1

\* migrate has ended on a chain of two or more revisions whose head is not
\* a descendant of the revision the database names
C13_Witness ==
    /\ cmd = "manage.migrate"
    /\ pc = "idle"
    /\ CurrentNotInChain
    /\ Len(migrations_to_apply) >= 2
    /\ exitCode = 1

(***************************************************************************)
(* C14: migrate with an explicit target T that is the current revision or  *)
(* lies after it.  The migrations the run executes are the revisions after *)
(* current, in chain order, and never one after T; the upgrade call is     *)
(* handed no migration when T is the current revision.  A run that was not *)
(* stopped and met no failure has applied exactly the revisions after      *)
(* current up to and including T, and ends with AppliedState = T and exit  *)
(* code 0, whether or not T is the head.                                   *)
(***************************************************************************)
TargetCommands == {"manage.migrate", "scripts.migrate"}

C14_WitnessTargetIsCurrent ==
    /\ cmd = "manage.migrate"
    /\ pc = "idle"
    /\ target # None
    /\ target = current_rev
    /\ target # head_rev
    /\ exitCode = 0
    /\ ~Interrupted

(***************************************************************************)
(* C15 (as stated): under both entry points the history command prints the *)
(* chain newest first, truncated to the N newest for limit N.              *)
(***************************************************************************)
\* the first n entries of s, all of s when n is larger
FirstN(s, n) == SubSeq(s, 1, IF n < Len(s) THEN n ELSE Len(s))

NewestFirst == Reverse(Chain)

C15_HistoryNewestFirstTruncated ==
    /\ (cmd = "scripts.history" /\ steps >= 0) => out = FirstN(NewestFirst, steps)
    /\ cmd = "manage.migrate-history" =>
          \E n \in 0..ChainLen : out = FirstN(NewestFirst, n)

(***************************************************************************)
(* C15 (amended): scripts/migrate.py history -l N prints the chain newest  *)
(* first, truncated to the N newest revisions (min(N, chain length)        *)
(* entries); manage.py migrate-history takes no limit and prints the whole *)
(* chain oldest first.                                                     *)
(***************************************************************************)
C15_HistoryPerEntryPoint ==
    /\ (cmd = "scripts.history" /\ steps >= 0) =>
          /\ out = FirstN(NewestFirst, steps)
          /\ Len(out) <= steps
          /\ Len(out) <= ChainLen
          /\ \A i \in 1..Len(out) : out[i] = Rev(ChainLen + 1 - i)
    /\ cmd = "manage.migrate-history" => out = Chain

\* history -l 2 over a chain of three revisions
C15_Witness ==
    /\ cmd = "scripts.history"
    /\ steps = 2
    /\ ChainLen = 3
    /\ Len(out) = 2

\* migrate-history over a chain of two or more revisions
C15_WitnessManage ==
    /\ cmd = "manage.migrate-history"
    /\ ChainLen >= 2
    /\ out = Chain

(***************************************************************************)
(* C16: with a single writer AppliedState is none or a revision of the     *)
(* chain, and every step that changes it moves it to the revision right    *)
(* after or right before its previous value (none being right before the   *)
(* root): no change skips a revision.                                      *)
(***************************************************************************)
AppliedStateMovesByOne ==
    /\ AppliedState' \in Revisions \cup {None}
    /\ AppliedState' # AppliedState =>
          \/ Pos(AppliedState') = Pos(AppliedState) + 1
          \/ Pos(AppliedState') = Pos(AppliedState) - 1

C16_AppliedStateMovesAlongChain == [][AppliedStateMovesByOne]_vars

\* a migrate of three revisions in one call has failed at the third: the
\* two before it stay applied
C16_Witness ==
    /\ cmd = "scripts.migrate"
    /\ pc = "idle"
    /\ Failed = {3}
    /\ AppliedState = Rev(2)

\* a rollback of three revisions has reverted two of them so far
C16_WitnessRollback ==
    /\ cmd = "scripts.rollback"
    /\ pc = "alembic"
    /\ Len(log) = 2
    /\ Pos(AppliedState) = Pos(current_rev) - 2

(***************************************************************************)
(* C17: within one run of manage.py migrate the pending revisions are      *)
(* applied in the order of the plan, oldest first and one at a time: the   *)
(* i-th migration executed is the i-th revision of the plan, so none runs  *)
(* twice or out of order, and when the apply of a revision is about to     *)
(* start every apply before it has succeeded and AppliedState is the       *)
(* revision right before it in the plan (the revision read at the start    *)
(* for the first).                                                         *)
(***************************************************************************)
C17_MigrateAppliesInPlannedOrder ==
    MigrateRan =>
        LET plan == migrations_to_apply
            j == Len(log)
        IN  /\ j <= Len(plan)
            /\ \A i \in 1..j : log[i].op = "apply" /\ log[i].rev = plan[i]
            /\ \A i \in 1..(j - 1) : log[i].ok
            /\ (pc = "alembic" /\ todo # <<>>) =>
                  /\ todo = <<[op |-> "apply", rev |-> plan[j + 1]]>>
                  /\ Failed = {}
                  /\ AppliedState = IF j = 0 THEN current_rev ELSE plan[j]
                  /\ schema = {Rev(i) : i \in 1..Pos(AppliedState)}

\* the apply of the third revision of the plan is about to start
C17_Witness ==
    /\ MigrateRan
    /\ pc = "alembic"
    /\ todo # <<>>
    /\ Len(log) = 2
    /\ Len(migrations_to_apply) = 3

(***************************************************************************)
(* C18: a run of manage.py migrate that is stopped between two steps,      *)
(* after N revisions of its plan, halts with AppliedState at the N-th      *)
(* revision of the plan (at the revision read at the start for N = 0); the *)
(* revisions whose apply has taken effect are exactly the chain up to and  *)
(* including AppliedState, and no later revision of the plan has left an   *)
(* effect.                                                                 *)
(***************************************************************************)
C18_InterruptedRunHaltsOnPrefix ==
    (MigrateRan /\ Interrupted /\ pc = "idle") =>
        LET plan == migrations_to_apply
            N == Len(log)
        IN  /\ Failed = {}
            /\ N <= Len(plan)
            /\ AppliedState = IF N = 0 THEN current_rev ELSE plan[N]
            /\ schema = {Rev(i) : i \in 1..Pos(AppliedState)}
            /\ \A i \in (N + 1)..Len(plan) : plan[i] \notin schema

\* the run was stopped after the first of three planned revisions
C18_Witness ==
    /\ MigrateRan
    /\ Interrupted
    /\ pc = "idle"
    /\ Len(log) = 1
    /\ Len(migrations_to_apply) = 3
    /\ schema = {migrations_to_apply[1]}

(***************************************************************************)
(* C19: retry after fix.  A manage.py migrate that is run right after a    *)
(* migrate run that failed at revision Rk plans from the persisted         *)
(* AppliedState R(k-1): its plan is Rk..Rn and holds no revision the       *)
(* failed run had applied, and it executes no other migration.  Once no    *)
(* revision script raises any more, such a run eventually ends with        *)
(* AppliedState at the head, having applied exactly Rk..Rn.                *)
(***************************************************************************)
RetryPlan == SubSeq(Chain, Pos(retry.failedAt), ChainLen)

RetryReplansFromAppliedState ==
    (MigrateRan /\ retry # NoRetry) =>
        /\ current_rev = Rev(Pos(retry.failedAt) - 1)
        /\ migrations_to_apply = RetryPlan
        /\ Range(migrations_to_apply) \cap retry.applied = {}
        /\ Len(log) <= Len(RetryPlan)
        /\ \A i \in 1..Len(log) : log[i].op = "apply" /\ log[i].rev = RetryPlan[i]

\* the retry is under way and no revision script raises
RetryRuns ==
    /\ MigrateRan
    /\ retry # NoRetry
    /\ pc = "manage_loop"
    /\ broken = None

RetryAtHead ==
    /\ MigrateRan
    /\ retry # NoRetry
    /\ pc = "idle"
    /\ exitCode = 0
    /\ AppliedState = get_current_head
    /\ log = [i \in 1..Len(RetryPlan) |-> [op |-> "apply", rev |-> RetryPlan[i], ok |-> TRUE]]

C19_RetryAfterFixReachesHead ==
    /\ []RetryReplansFromAppliedState
    /\ (RetryRuns ~> RetryAtHead)

\* the run before failed at the second of three revisions; the retry has
\* applied the second and the third and is at the head
C19_Witness ==
    /\ RetryAtHead
    /\ ChainLen = 3
    /\ Pos(retry.failedAt) = 2
    /\ retry.applied = {Rev(1)}
    /\ Len(log) = 2

(***************************************************************************)
(* C20: manage.py migrate reads AppliedState once, at its start, and plans *)
(* from that value; between its steps it neither reads nor checks          *)
(* AppliedState again.  Whatever another writer makes of AppliedState      *)
(* while the run is in progress, the upgrade calls the run has issued are  *)
(* the revisions of its original plan, in the original order, and a run    *)
(* that ends without a failure has issued all of them.                     *)
(***************************************************************************)
\* the revisions after the revision read at the start, oldest first
OriginalPlan ==
    LET chain == Chain
    IN  SubSeq(chain, Pos(current_rev) + 1, Len(chain))

C20_MigrateKeepsOriginalPlan ==
    MigrateRan =>
        LET plan == OriginalPlan
        IN  /\ migrations_to_apply = plan
            /\ Len(calls) <= Len(plan)
            /\ calls = SubSeq(plan, 1, Len(calls))
            /\ pc = "manage_loop" => Len(calls) = idx - 1
            /\ (pc = "idle" /\ Failed = {}) => calls = plan

\* the run has issued the three calls of its plan although another writer
\* rolled the database back in between: the calls ran more than three
\* migrations
C20_Witness ==
    /\ MigrateRan
    /\ pc = "idle"
    /\ exitCode = 0
    /\ Len(calls) = 3
    /\ calls = migrations_to_apply
    /\ Len(log) > 3

\* another writer had brought the database to the head: the remaining calls
\* were issued all the same and ran no migration
C20_WitnessAhead ==
    /\ MigrateRan
    /\ pc = "idle"
    /\ exitCode = 0
    /\ Len(calls) = 3
    /\ Len(log) = 1

(***************************************************************************)
(* C21 (as stated): when the revision scripts have more than one head or   *)
(* are empty, every command that needs head (migrate, migrate-check,       *)
(* check, startup check) fails with an error.                              *)
(***************************************************************************)
HeadCommands ==
    {"manage.migrate", "scripts.migrate", "manage.migrate-check", "scripts.check",
     "check_migrations_cli", "startup", "startup.strict"}

\* a command that needs head starts while no revision, or more than one, is a head
StartsWithoutUniqueHead ==
    pc = "idle" /\ cmd' \in HeadCommands /\ Cardinality(Heads) # 1

NoUniqueHeadFails == StartsWithoutUniqueHead => exitCode' = 1

C21_NoUniqueHeadIsAnError == [][NoUniqueHeadFails]_vars

(***************************************************************************)
(* C21 (amended): with more than one head, manage.py migrate, manage.py    *)
(* migrate-check, check_migrations_cli and the strict startup check fail   *)
(* (exit code 1) and leave the database alone; scripts/migrate.py check    *)
(* and migrate take the failed lookup as "nothing pending" (exit code 0)   *)
(* when the marker table can be read, check reports pending (1) and        *)
(* migrate to head fails (1) when it cannot; the startup check that is not *)
(* strict logs that it could not check and returns.  With no revision      *)
(* script at all no command fails on that account: head is None, and with  *)
(* no revision applied migrate, migrate-check, check_migrations_cli and    *)
(* the startup checks take the database as up to date, as does             *)
(* scripts/migrate.py check when the marker table exists.                  *)
(***************************************************************************)
CouldNotCheck ==
    {"Could not check migration status: OperationalError",
     "Could not check migration status: CommandError"}

SeveralHeadsOutcome ==
    /\ cmd' \in {"manage.migrate", "manage.migrate-check"} =>
          exitCode' = 1 /\ UNCHANGED dbvars
    /\ cmd' = "check_migrations_cli" => exitCode' = 1 /\ UNCHANGED dbvars
    /\ cmd' = "startup.strict" => exitCode' = 1 /\ UNCHANGED dbvars
    /\ cmd' = "startup" =>
          exitCode' = 0 /\ out'[1].msg \in CouldNotCheck /\ UNCHANGED dbvars
    /\ cmd' = "scripts.check" => exitCode' = IF tableExists THEN 0 ELSE 1
    /\ cmd' = "scripts.migrate" =>
          /\ tableExists => exitCode' = 0 /\ UNCHANGED dbvars
          /\ ~tableExists /\ target' = None =>
                exitCode' = 1 /\ UNCHANGED <<version_num, schema>>

NoScriptOutcome ==
    /\ head_rev' = None
    /\ get_current_revision = None =>
          /\ cmd' \in {"manage.migrate", "manage.migrate-check", "check_migrations_cli"} =>
                exitCode' = 0 /\ UNCHANGED dbvars
          /\ cmd' = "startup" =>
                /\ exitCode' = 0
                /\ out'[1].msg \in CouldNotCheck \cup {"Database migrations are up to date"}
          /\ cmd' = "startup.strict" =>
                exitCode' = IF out'[1].msg = "OperationalError" THEN 1 ELSE 0
          /\ cmd' = "scripts.check" => exitCode' = IF tableExists THEN 0 ELSE 1

HeadLookupOutcome ==
    StartsWithoutUniqueHead =>
        IF Cardinality(Heads) > 1 THEN SeveralHeadsOutcome ELSE NoScriptOutcome

C21_HeadLookupPerCommand == [][HeadLookupOutcome]_vars

\* manage.py migrate has met two heads and failed
C21_Witness ==
    /\ cmd = "manage.migrate"
    /\ pc = "idle"
    /\ Cardinality(Heads) = 2
    /\ exitCode = 1
    /\ log = <<>>

\* manage.py migrate-check has met no revision script and a fresh database
C21_WitnessNoScript ==
    /\ cmd = "manage.migrate-check"
    /\ Revisions = {}
    /\ exitCode = 0

\* scripts/migrate.py check has met two heads and a readable marker table
C21_WitnessSwallowed ==
    /\ cmd = "scripts.check"
    /\ Cardinality(Heads) = 2
    /\ tableExists
    /\ exitCode = 0

(***************************************************************************)
(* C22: check_migrations_on_startup(strict=False) never raises, whatever   *)
(* it meets (pending migrations, a database it cannot reach, a head lookup *)
(* that fails), so the application starts; with strict=True, a database it *)
(* can reach and a head lookup that succeeds it raises when current # head *)
(* and returns normally when current = head.                               *)
(***************************************************************************)
StartupCommands == {"startup", "startup.strict"}

\* the strict hook got as far as comparing current_rev with head_rev
StrictCompared ==
    /\ cmd = "startup.strict"
    /\ out[1].msg # "OperationalError"
    /\ Cardinality(Heads) <= 1

C22_StartupCheckRaisesOnlyWhenStrict ==
    (pc = "idle" /\ cmd \in StartupCommands) =>
        /\ exitCode \in {0, 1}
        /\ cmd = "startup" => exitCode = 0
        /\ StrictCompared => (exitCode = 1 <=> SelectedRevision # get_current_head)

\* the lenient hook could not reach the database and returned
C22_Witness ==
    /\ cmd = "startup"
    /\ out[1].msg = "Could not check migration status: OperationalError"
    /\ exitCode = 0

\* the lenient hook met a head lookup that fails and returned
C22_WitnessHeads ==
    /\ cmd = "startup"
    /\ Cardinality(Heads) > 1
    /\ out[1].msg = "Could not check migration status: CommandError"
    /\ exitCode = 0

\* the strict hook met pending migrations and raised; at head it returns
C22_WitnessStrict ==
    /\ cmd = "startup.strict"
    /\ StrictCompared
    /\ get_current_head # None
    /\ SelectedRevision # get_current_head
    /\ exitCode = 1

C22_WitnessStrictAtHead ==
    /\ cmd = "startup.strict"
    /\ StrictCompared
    /\ get_current_head # None
    /\ SelectedRevision = get_current_head
    /\ exitCode = 0

(***************************************************************************)
(* C23 (as stated): while the database is reachable and its current        *)
(* revision differs from head, manage.py makemigrations creates no         *)
(* revision and exits with code 1; hence, from an up-to-date database, no  *)
(* sequence of makemigrations and migrate commands leaves more than one    *)
(* revision unapplied.                                                     *)
(***************************************************************************)
MakemigrationsCommands == {"manage.makemigrations", "manage.makemigrations --dry-run"}

\* the revisions of the chain that are not applied
Unapplied == Revisions \ Ancestors(AppliedState)

\* makemigrations starts and reaches a database that is behind head
MakemigrationsBehindHead ==
    /\ pc = "idle"
    /\ cmd' \in MakemigrationsCommands
    /\ out'[1].reached
    /\ get_current_revision # get_current_head

MakemigrationsRefused == MakemigrationsBehindHead => down' = down /\ exitCode' = 1

C23_AtMostOneUnapplied ==
    ~since.blind => Cardinality(Unapplied) <= 1

(***************************************************************************)
(* C23 (amended): while the database is reachable and its current revision *)
(* differs from head, manage.py makemigrations creates no revision and     *)
(* exits with code 1; hence, from an up-to-date database that every        *)
(* makemigrations reaches, no sequence of makemigrations and forward       *)
(* migrate commands leaves more than one revision unapplied: more are left *)
(* unapplied only after migrate --downgrade has reverted a revision.       *)
(***************************************************************************)
AtMostOneUnappliedUnlessReverted ==
    (~since.blind /\ ~since.reverted) => Cardinality(Unapplied) <= 1

C23_MakemigrationsRefusedBehindHead ==
    [][MakemigrationsRefused]_vars /\ []AtMostOneUnappliedUnlessReverted

\* makemigrations has refused: the revision written before is not applied yet
C23_Witness ==
    /\ cmd = "manage.makemigrations"
    /\ out[1].msg = "refused"
    /\ out[1].reached
    /\ exitCode = 1
    /\ Cardinality(Unapplied) = 1
    /\ ~since.reverted

\* makemigrations has written a revision on an up-to-date database
C23_WitnessCreated ==
    /\ cmd = "manage.makemigrations"
    /\ out[1].msg = "created"
    /\ out[1].reached
    /\ Cardinality(Unapplied) = 1
    /\ AppliedState # None
    /\ ~since.reverted

(***************************************************************************)
(* C24: after any sequence of register, update and delete requests,        *)
(* registrations side by side with the same email or username included, no *)
(* two stored users share an email or a username; a registration whose     *)
(* email or username is taken fails (409 from the query, or the            *)
(* IntegrityError of the commit, rolled back) and leaves the stored users  *)
(* as they were.                                                           *)
(***************************************************************************)
NoSharedEmailOrUsername ==
    \A i, j \in Stored :
       i # j => /\ users[i].email # users[j].email
                /\ users[i].username # users[j].username

\* a registration ends: created (201), conflict (409) or IntegrityError (500)
RegistrationEnds ==
    resp'.op = "register" =>
        /\ resp'.status \in {201, 409, 500}
        /\ resp'.status # 201 => users' = users
        /\ resp'.status = 201 =>
              /\ resp'.subject \notin Stored
              /\ DOMAIN users' = Stored \cup {resp'.subject}
              /\ \A u \in Stored :
                    /\ users'[u] = users[u]
                    /\ users[u].email # users'[resp'.subject].email
                    /\ users[u].username # users'[resp'.subject].username

C24_UsersStayUnique == []NoSharedEmailOrUsername /\ [][RegistrationEnds]_vars

\* of two registrations side by side one was stored, the other met the
\* unique index at its commit
C24_Witness ==
    /\ resp.op = "register"
    /\ resp.status = 500
    /\ Cardinality(Stored) = 2
    /\ \A s \in Sessions : registering[s] = NoRequest

\* an update to an email that is taken was refused by the unique index
C24_WitnessUpdate ==
    /\ resp.op = "update_user"
    /\ resp.status = 500
    /\ Cardinality(Stored) = 2

\* a registration was refused by the query of create_user
C24_WitnessConflict ==
    /\ resp.op = "register"
    /\ resp.status = 409


(***************************************************************************)
(* Tokens, authorization and deactivation (dependencies.py, users.py,      *)
(* auth_service.py)                                                        *)
(***************************************************************************)

\* the requests behind get_current_user
AuthenticatedOps == {"me", "get_users", "get_user", "update_user", "delete_user"}

\* the user-management requests
UserOps == {"get_users", "get_user", "update_user", "delete_user"}

\* the response says the request was authenticated as a user
Authenticated == resp.op \in AuthenticatedOps /\ resp.caller # 0

AccessOnlyAuthenticates ==
    /\ Authenticated => resp.token = "access"
    /\ resp.op \in AuthenticatedOps /\ resp.token = "refresh"
          => resp.status = 401 /\ resp.caller = 0

RefreshOnlyRefreshes ==
    /\ resp.op = "refresh" /\ resp.status = 200 => resp.token = "refresh"
    /\ resp.op = "refresh" /\ resp.token = "access" => resp.status = 401

\* a refresh request that is not served with a refresh token issues nothing
NothingMintedFromOtherTokens ==
    resp'.op = "refresh" /\ resp'.token # "refresh" => tokens' = tokens

\* C25: token types are never interchangeable: a request is authenticated by
\* get_current_user only with a token of type "access" (a refresh token is
\* answered 401), and refresh_access_token issues an access token only from
\* a token of type "refresh" (an access token is answered 401, nothing is
\* issued).
C25_TokenTypesNotInterchangeable ==
    /\ [](AccessOnlyAuthenticates /\ RefreshOnlyRefreshes)
    /\ [][NothingMintedFromOtherTokens]_vars

\* a refresh token presented to GET /me was answered 401
C25_Witness == resp.op = "me" /\ resp.token = "refresh" /\ resp.status = 401

\* an access token presented to POST /refresh was answered 401
C25_WitnessRefresh ==
    resp.op = "refresh" /\ resp.token = "access" /\ resp.status = 401

\* both kinds were accepted where they belong
C25_WitnessAccepted ==
    /\ resp.op = "me" /\ resp.token = "access" /\ resp.status = 200
    /\ \E t \in tokens : t.type = "access" /\ t.user_id # 1


\* caller may do op on subject: an administrator everything, anyone else
\* only view or update their own user
Permitted(op, caller, subject) ==
    \/ users[caller].role = "admin"
    \/ op \in {"get_user", "update_user"} /\ caller = subject

\* a user-management request is served (200, 204, or 404 for a missing
\* subject) only for a permitted caller; every other authenticated caller
\* gets 403, an unauthenticated one 401, and both leave users alone
UserManagementAuthorized ==
    resp'.op \in UserOps =>
       /\ resp'.status \notin {401, 403}
             => resp'.caller \in Stored
                /\ Permitted(resp'.op, resp'.caller, resp'.subject)
       /\ resp'.caller \in Stored
          /\ ~Permitted(resp'.op, resp'.caller, resp'.subject)
             => resp'.status = 403 /\ users' = users
       /\ resp'.caller = 0 => resp'.status = 401 /\ users' = users

\* C26: listing all users and deleting a user succeed only for a caller
\* whose stored role is admin; viewing or updating user u succeeds only for
\* u or an administrator; every other caller is answered 403 and the stored
\* users are unchanged.
C26_UserManagementAuthorization == [][UserManagementAuthorized]_vars

\* a user who is not an administrator asked to delete a user and got 403
C26_Witness ==
    /\ resp.op = "delete_user"
    /\ resp.status = 403
    /\ resp.caller \in Stored
    /\ users[resp.caller].role = "user"

\* a user who is not an administrator updated their own user
C26_WitnessOwn ==
    /\ resp.op = "update_user"
    /\ resp.status = 200
    /\ resp.caller = resp.subject
    /\ resp.caller \in Stored
    /\ users[resp.caller].role = "user"

\* ... and was refused the update of another user
C26_WitnessOther ==
    /\ resp.op = "update_user"
    /\ resp.status = 403
    /\ resp.caller # resp.subject
    /\ resp.subject \in Stored


\* the users deleted so far: the sequence behind users.id never hands an id
\* out twice
Deleted == (1..(next_id - 1)) \ Stored

\* a request is authenticated as a user only if, when it is served, that
\* user is stored and active
AuthenticatesOnlyActive ==
    resp'.op \in AuthenticatedOps /\ resp'.caller # 0
       => resp'.caller \in Stored /\ users[resp'.caller].is_active

\* a login for an inactive user is refused and issues no token
InactiveLoginRefused ==
    (resp'.op = "login" /\ resp'.subject \in Stored
        /\ ~users[resp'.subject].is_active)
       => resp'.status \in {401, 403} /\ tokens' = tokens

\* a deleted user stays deleted
DeletedForGood == Deleted \subseteq Deleted'

\* C27 (as the code has it): while a user is inactive, and for good once the
\* user is deleted, no request is authenticated as that user by
\* get_current_user, whatever token is presented, and a login for an
\* inactive user is refused.
C27_NoAuthenticationWhileInactiveOrDeleted ==
    [][AuthenticatesOnlyActive /\ InactiveLoginRefused /\ DeletedForGood]_vars

\* C27 (as stated): once a user has been deactivated or deleted, no later
\* request is authenticated as that user.
C27_NoAuthenticationEverAfter ==
    [][resp'.op \in AuthenticatedOps /\ resp'.caller # 0
          => resp'.caller \notin deactivated \cup Deleted]_vars

\* an access token issued before the deactivation of its user was
\* presented afterwards and answered 401
C27_Witness ==
    /\ resp.op = "me"
    /\ resp.token = "access"
    /\ resp.status = 401
    /\ resp.subject \in Stored
    /\ ~users[resp.subject].is_active

\* the same for a deleted user
C27_WitnessDeleted ==
    /\ resp.op = "me"
    /\ resp.token = "access"
    /\ resp.status = 401
    /\ resp.subject \in Deleted

\* the correct password of an inactive user was refused
C27_WitnessLogin == resp.op = "login" /\ resp.status = 403

\* an access token was issued from the refresh token of an inactive user
C27_WitnessMinted ==
    /\ resp.op = "refresh"
    /\ resp.status = 200
    /\ resp.subject \in Stored
    /\ ~users[resp.subject].is_active

\* a request was authenticated as a user who had been deactivated
C27_WitnessReactivated == Authenticated /\ resp.caller \in deactivated


(***************************************************************************)
(* The inspection commands among the commands that change something        *)
(***************************************************************************)
\* the inspection commands next to manage.py makemigrations, migrate and
\* migrate --downgrade; the database is up or down when the startup hook and
\* makemigrations look at it
NextInspect ==
    \/ ManageMigrate
    \/ ManageLoopNext
    \/ ManageLoopEnd
    \/ ManageMigratePlan
    \/ ManageMigrateDowngrade
    \/ AlembicStepOk
    \/ AlembicStepFails
    \/ AlembicReturn
    \/ ScriptsShowmigrations
    \/ ScriptsCheck
    \/ ManageShowmigrations
    \/ ManageMigrateCheck
    \/ CheckMigrationsCli
    \/ CheckMigrationsOnStartupAnyDb
    \/ ScriptsCurrent
    \/ ManageMigrateCurrent
    \/ ScriptsHistory
    \/ ManageMigrateHistory
    \/ ManageMakemigrations

SpecInspect == Init /\ [][NextInspect]_vars

\* the commands that only look
InspectionCommands ==
    {"scripts.showmigrations", "manage.showmigrations",
     "scripts.check", "manage.migrate-check", "check_migrations_cli",
     "scripts.history", "manage.migrate-history",
     "scripts.current", "manage.migrate-current",
     "manage.plan", "manage.makemigrations --dry-run",
     "startup", "startup.strict"}

InspectionLeavesState ==
    cmd' \in InspectionCommands
       => /\ version_num' = version_num
          /\ tableExists' = tableExists
          /\ schema' = schema
          /\ down' = down

\* C28: showmigrations, migrate-check / check, migrate-history / history,
\* migrate-current / current, migrate --plan, makemigrations --dry-run and
\* the startup check leave the applied revision, the database and the set
\* of revision scripts as they were, in every state, also when they end
\* with an error.
C28_InspectionChangesNothing == [][InspectionLeavesState]_vars

\* makemigrations --dry-run went as far as "Would create" while a revision
\* id was free and the database had been migrated
C28_Witness ==
    /\ cmd = "manage.makemigrations --dry-run"
    /\ out = <<[msg |-> "dry-run", reached |-> TRUE]>>
    /\ RevIds \ Revisions # {}
    /\ version_num # None

\* an inspection command ended with an error over a database that has
\* revisions applied
C28_WitnessError ==
    /\ cmd \in InspectionCommands
    /\ exitCode = ExitOnException
    /\ version_num # None


(***************************************************************************)
(* migrate --plan against migrate                                          *)
(***************************************************************************)
\* the revisions the running command has applied, in order
AppliedRevisions ==
    LET applied == SelectSeq(log, LAMBDA e : e.op = "apply" /\ e.ok)
    IN  [i \in 1..Len(applied) |-> applied[i].rev]

IsPrefixOf(s, t) == Len(s) <= Len(t) /\ s = SubSeq(t, 1, Len(s))

\* manage.py migrate without a target
MigrateToHead == cmd = "manage.migrate" /\ target = None

MigrateToHeadEnded == MigrateToHead /\ pc = "idle"

\* no upgrade() raised and nobody pressed Ctrl-C
Undisturbed == (\A i \in DOMAIN log : log[i].ok) /\ out # <<"Shutting down...">>

\* migrate starts with the list that migrate --plan prints in the same state
MigrateStartsWithThePlan ==
    /\ (pc = "idle" /\ cmd' = "manage.migrate" /\ ~MultipleHeads)
          => migrations_to_apply' = PlannedMigrations
    /\ (pc = "idle" /\ cmd' = "manage.plan" /\ ~MultipleHeads)
          => out' = PlannedMigrations /\ exitCode' = ExitOk

\* ... and applies it, in that order, unless the marker names no script
MigrateAppliesThePlan ==
    /\ MigrateToHead => IsPrefixOf(AppliedRevisions, migrations_to_apply)
    /\ (MigrateToHeadEnded /\ Undisturbed /\ ~CurrentNotInChain)
          => AppliedRevisions = migrations_to_apply /\ exitCode = ExitOk
    /\ (MigrateToHeadEnded /\ CurrentNotInChain)
          => AppliedRevisions = <<>> /\ exitCode = ExitOnException

\* C29 (as the code has it): when the applied revision is none or one of
\* the revision scripts, the revisions migrate --plan prints are the
\* revisions migrate without a target applies from the same state, in the
\* same order, and both are empty in the same states; when the applied
\* revision is not among the scripts, the plan is printed and migrate
\* applies nothing.
C29_PlanIsWhatMigrateApplies ==
    []MigrateAppliesThePlan /\ [][MigrateStartsWithThePlan]_vars

\* C29 (as stated): in every state the revisions migrate applies are the
\* revisions the plan lists.
C29_PlanIsWhatMigrateAppliesInEveryState ==
    (MigrateToHeadEnded /\ Undisturbed) => AppliedRevisions = migrations_to_apply

\* migrate applied the two revisions of its plan, from a revision that was
\* applied before
C29_Witness ==
    /\ MigrateToHeadEnded
    /\ exitCode = ExitOk
    /\ current_rev # None
    /\ Len(migrations_to_apply) = 2
    /\ AppliedRevisions = migrations_to_apply

\* migrate ended over a marker that names no script, with a plan it did not apply
C29_WitnessStale ==
    /\ MigrateToHeadEnded
    /\ CurrentNotInChain
    /\ migrations_to_apply # <<>>
    /\ AppliedRevisions = <<>>

\* the plan was printed over a marker that names no script
C29_WitnessPlanStale ==
    cmd = "manage.plan" /\ CurrentNotInChain /\ out # <<>>


(***************************************************************************)
(* scripts/migrate.py showmigrations against check_pending                 *)
(***************************************************************************)
\* pending_count of showmigrations
pending_count == Cardinality({i \in DOMAIN out : out[i].status = "PENDING"})

\* C30: scripts/migrate.py showmigrations and check_pending agree in every
\* state: showmigrations counts at least one pending revision exactly when
\* check_pending returns True, that is exactly when the applied revision is
\* not the head; with nothing applied and a chain that is not empty both
\* report pending.  (Stated for a chain that is not empty: with no script and
\* no alembic_version table check_pending is True over "No migrations found.")
C30_ShowmigrationsAgreesWithCheckPending ==
    (cmd = "scripts.showmigrations" /\ Revisions # {}) =>
        /\ pending_count >= 1 <=> check_pending
        /\ check_pending <=> AppliedState # get_current_head
        /\ (AppliedState = None /\ Revisions # {}) => pending_count >= 1

====
